---- MODULE Spec2Model ----
(***************************************************************************)
(* Model of the UxS Architect web session (web/dist/ui.js) and of the      *)
(* MissionProject reconciliation layer: the normalizer                     *)
(* upgradeMissionBundle, the importer applyMissionProject and the          *)
(* merger/builder buildMissionProjectPayload.                              *)
(*                                                                         *)
(* Representation of JavaScript values                                     *)
(*   - a property that may be undefined is an option: None is undefined    *)
(*     (or null, or an absent key), Some(v) is the value v;                *)
(*   - an object is a record that lists every property the model follows;  *)
(*   - an array is a sequence;                                             *)
(*   - kilogram-valued fields are integers counting KgScale-ths of a       *)
(*     kilogram, gram-valued metrics are integers counting GramScale-ths   *)
(*     of a gram, so that kg * 1000 = g is exact and toFixed(3) is a       *)
(*     rounding to a multiple of RoundStep units.                          *)
(*   - watt-valued fields are integers counting WattScale-ths of a watt;   *)
(*     thrust-to-weight and endurance figures are exact fractions.         *)
(***************************************************************************)
EXTENDS Integers, Sequences, FiniteSets, TLC

----------------------------------------------------------------------------
(* JavaScript values *)

None == <<>>
Some(v) == <<v>>

\* x || y on string-valued options: '' and undefined are falsy
TruthyStr(o) == o # None /\ o[1] # ""
\* x || y on number-valued options: 0 and undefined are falsy
TruthyNum(o) == o # None /\ o[1] # 0

OrStr(a, b) == IF TruthyStr(a) THEN a ELSE b
OrNum(a, b) == IF TruthyNum(a) THEN a ELSE b
\* x ?? y : only null/undefined fall through
Nullish(a, b) == IF a # None THEN a ELSE b

\* a value found where a list of role tags is expected: a list, or something
\* that is not a list (a non-empty string)
RoleList(s) == [isArray |-> TRUE, items |-> s]
NotAList == [isArray |-> FALSE, items |-> <<>>]

\* x || [] : every array and every non-empty string is truthy
OrEmptyRoles(o) == IF o # None THEN o ELSE Some(RoleList(<<>>))
OrEmptyList(o) == IF o # None THEN o ELSE Some(<<>>)
\* (x || []) read as an array
ListOf(o) == IF o # None THEN o[1] ELSE <<>>

\* const x = e; followed by an expression `body` that reads x is written
\* The({ body : x \in {e} }): e is computed once.  A run of declarations
\* nests, the first declaration outermost (its `: x \in {e}` comes last).
The(S) == CHOOSE r \in S : TRUE

SeqRange(s) == {s[i] : i \in 1..Len(s)}

RECURSIVE MapSeq(_, _)
MapSeq(F(_), s) == IF s = <<>> THEN <<>> ELSE <<F(Head(s))>> \o MapSeq(F, Tail(s))

RECURSIVE FilterSeq(_, _)
FilterSeq(Keep(_), s) ==
  IF s = <<>> THEN <<>>
  ELSE IF Keep(Head(s)) THEN <<Head(s)>> \o FilterSeq(Keep, Tail(s))
       ELSE FilterSeq(Keep, Tail(s))

SetMin(S) == CHOOSE x \in S : \A y \in S : x <= y

\* Array.prototype.findIndex, 1-based; 0 when nothing matches
FindIndex(Test(_), s) ==
  LET hits == {i \in 1..Len(s) : Test(s[i])}
  IN IF hits = {} THEN 0 ELSE SetMin(hits)

----------------------------------------------------------------------------
(* Program constants *)

MISSIONPROJECT_SCHEMA_VERSION == "2.0.0"
ORIGIN_TOOL == "UxSArchitect"

\* model units per kilogram (kg-valued bundle fields)
KgScale == 10000
\* model units per gram (metrics.totalWeight); KgScale = 1000 * GramScale
GramScale == 10
\* toFixed(3) on kilograms keeps multiples of 0.001 kg = RoundStep units
RoundStep == 10

----------------------------------------------------------------------------
(* MissionProject entities: the properties the model follows *)

BlankEnv ==
  [id |-> None, origin_tool |-> None, altitudeBand |-> None, altitude_band |-> None,
   temperatureBand |-> None, temperature_band |-> None, notes |-> None]

BlankConstraint ==
  [id |-> None, origin_tool |-> None,
   minThrustToWeight |-> None, min_thrust_to_weight |-> None,
   minAdjustedEnduranceMin |-> None, min_adjusted_endurance_min |-> None,
   maxAuwKg |-> None, max_auw_kg |-> None, notes |-> None]

BlankNode ==
  [id |-> None, name |-> None, origin_tool |-> None,
   role |-> None, role_tags |-> None,
   weightGrams |-> None, weight_grams |-> None,
   powerDrawW |-> None, power_draw_w |-> None, power_w |-> None,
   rfBandGhz |-> None, rf_band_ghz |-> None,
   location |-> None, notes |-> None]

BlankPlatform ==
  [id |-> None, name |-> None, origin_tool |-> None, domain |-> None,
   frameType |-> None, frame_type |-> None, frame |-> None,
   mountedNodeIds |-> None, mounted_node_ids |-> None,
   payloadIds |-> None, payload_ids |-> None,
   powerBudgetW |-> None, power_budget_w |-> None,
   batteryWh |-> None, battery_wh |-> None,
   auwKg |-> None, auw_kg |-> None,
   missionRoles |-> None, mission_roles |-> None,
   environmentRef |-> None, environment_ref |-> None,
   constraintsRef |-> None, constraints_ref |-> None,
   envAltitudeBand |-> None, envTemperatureBand |-> None,
   location |-> None, notes |-> None]

BlankLink ==
  [id |-> None, origin_tool |-> None, from |-> None, to |-> None,
   rfBandGhz |-> None, rf_band_ghz |-> None, notes |-> None]

BlankKit ==
  [id |-> None, name |-> None, origin_tool |-> None,
   supportedPlatformIds |-> None, supported_platform_ids |-> None,
   notes |-> None]

BlankMission ==
  [id |-> None, name |-> None, origin_tool |-> None,
   environment_id |-> None, constraint_id |-> None,
   environment_notes |-> None, objective |-> None]

\* the object {} : no property defined
BlankBody ==
  [schemaVersion |-> None, version |-> None, origin_tool |-> None,
   mission |-> None,
   environment |-> None, constraints |-> None, nodes |-> None,
   platforms |-> None, meshLinks |-> None, mesh_links |-> None,
   kits |-> None, extra |-> None]

\* A parsed JSON document handed to the importer.
\*   kind    : "object", "null" or "number" (JSON.parse results)
\*   wrapped : the object holds its bundle under the key mission_project
\*   sibling : an unrecognized property beside mission_project
\*   body    : the bundle object (input.mission_project || input)
JsonObject(wrapped, sibling, body) ==
  [kind |-> "object", wrapped |-> wrapped, sibling |-> sibling, body |-> body]
JsonNull == [kind |-> "null", wrapped |-> FALSE, sibling |-> None, body |-> BlankBody]
JsonNumber == [kind |-> "number", wrapped |-> FALSE, sibling |-> None, body |-> BlankBody]

----------------------------------------------------------------------------
(* MissionProject Normalizer *)

pickField(entry, names) ==
  The({
     IF hits = {} THEN None ELSE entry[names[SetMin(hits)]]
    : hits \in {{i \in 1..Len(names) : entry[names[i]] # None}} })

mapEnv(env) ==
  [env EXCEPT
     !.altitudeBand = pickField(env, <<"altitudeBand", "altitude_band">>),
     !.temperatureBand = pickField(env, <<"temperatureBand", "temperature_band">>)]

mapConstraint(c) ==
  [c EXCEPT
     !.minThrustToWeight = pickField(c, <<"minThrustToWeight", "min_thrust_to_weight">>),
     !.minAdjustedEnduranceMin =
        pickField(c, <<"minAdjustedEnduranceMin", "min_adjusted_endurance_min">>),
     !.maxAuwKg = pickField(c, <<"maxAuwKg", "max_auw_kg">>)]

mapNode(n) ==
  [n EXCEPT
     !.weightGrams = pickField(n, <<"weightGrams", "weight_grams">>),
     !.powerDrawW = pickField(n, <<"powerDrawW", "power_draw_w", "power_w">>),
     !.rfBandGhz = pickField(n, <<"rfBandGhz", "rf_band_ghz">>),
     !.role = OrEmptyRoles(pickField(n, <<"role", "role_tags">>))]

mapPlatform(p) ==
  [p EXCEPT
     !.frameType = pickField(p, <<"frameType", "frame_type", "frame">>),
     !.mountedNodeIds = OrEmptyList(pickField(p, <<"mountedNodeIds", "mounted_node_ids">>)),
     !.payloadIds = OrEmptyList(pickField(p, <<"payloadIds", "payload_ids">>)),
     !.powerBudgetW = pickField(p, <<"powerBudgetW", "power_budget_w">>),
     !.batteryWh = pickField(p, <<"batteryWh", "battery_wh">>),
     !.auwKg = pickField(p, <<"auwKg", "auw_kg">>),
     !.missionRoles = OrEmptyList(pickField(p, <<"missionRoles", "mission_roles">>)),
     !.environmentRef = pickField(p, <<"environmentRef", "environment_ref">>),
     !.constraintsRef = pickField(p, <<"constraintsRef", "constraints_ref">>)]

mapLink(l) == [l EXCEPT !.rfBandGhz = pickField(l, <<"rfBandGhz", "rf_band_ghz">>)]

mapKit(k) ==
  [k EXCEPT
     !.supportedPlatformIds =
        pickField(k, <<"supportedPlatformIds", "supported_platform_ids">>)]

\* const bundle = input?.mission_project || input || {}
bundleOf(input) == IF input.kind = "object" THEN input.body ELSE BlankBody

upgradeMissionBundle(input) ==
  The({
  The({
  The({
     [kind |-> "object",
      wrapped |-> wrapped,
      sibling |-> IF wrapped THEN None ELSE input.sibling,
      body |-> upgraded]
    : wrapped \in {input.kind = "object" /\ input.wrapped} })
    : upgraded \in {[bundle EXCEPT
           !.schemaVersion = OrStr(bundle.schemaVersion, Some(MISSIONPROJECT_SCHEMA_VERSION)),
           !.version = OrStr(bundle.version, Some(MISSIONPROJECT_SCHEMA_VERSION)),
           !.environment = Some(MapSeq(mapEnv, ListOf(bundle.environment))),
           !.constraints = Some(MapSeq(mapConstraint, ListOf(bundle.constraints))),
           !.nodes = Some(MapSeq(mapNode, ListOf(bundle.nodes))),
           !.platforms = Some(MapSeq(mapPlatform, ListOf(bundle.platforms))),
           !.meshLinks =
              Some(MapSeq(mapLink, ListOf(bundle.meshLinks) \o ListOf(bundle.mesh_links))),
           !.kits = Some(MapSeq(mapKit, ListOf(bundle.kits)))]} })
    : bundle \in {bundleOf(input)} })

----------------------------------------------------------------------------
(* Catalog Resolver and Stack Assembler *)

\* A catalog entry: the properties the model follows.  weight_grams and
\* max_thrust_per_motor_g in grams, capacity_mah in mAh, voltage_nominal in
\* millivolts, max_current_per_motor_a in amperes, power_draw_typical_w in
\* watts, power_levels_mw in milliwatts, rf_band_ghz in tenths of a GHz
\* (None where the entry has none).  A number the entry lacks reads 0.
Part(id, domain, weight, roles) ==
  [id |-> id, domain |-> domain, weight_grams |-> weight,
   role_tags |-> RoleList(roles),
   form_factor |-> None, subtype |-> None, max_auw_grams |-> 0,
   recommended_battery_s_cells |-> <<>>,
   capacity_mah |-> 0, voltage_nominal |-> 0, s_cells |-> 0,
   max_thrust_per_motor_g |-> 0, motor_count |-> 0,
   max_current_per_motor_a |-> 0, voltage_range_s_cells |-> <<>>,
   compatible_frame_form_factors |-> <<>>,
   power_draw_typical_w |-> 0, power_levels_mw |-> <<>>,
   rf_band_ghz |-> None, duty_cycle_profile |-> "", application |-> ""]

FullCatalog ==
  [frames |->
     << [Part("frame_5in", "air", 120, <<"trainer">>) EXCEPT
           !.form_factor = Some("5in_quad"), !.max_auw_grams = 900,
           !.recommended_battery_s_cells = <<4, 6>>],
        [Part("frame_7in", "air", 180, <<"long_range">>) EXCEPT
           !.max_auw_grams = 1500, !.recommended_battery_s_cells = <<6>>] >>,
   motorsEsc |->
     << [Part("motor_2207", "air", 140, <<>>) EXCEPT
           !.max_thrust_per_motor_g = 900, !.motor_count = 4,
           !.max_current_per_motor_a = 35, !.voltage_range_s_cells = <<4, 5, 6>>,
           !.compatible_frame_form_factors = <<"5in_quad">>] >>,
   flightControllers |-> << Part("fc_f7", "air", 8, <<>>) >>,
   vtx |->
     << [Part("vtx_58", "any", 10, <<>>) EXCEPT
           !.rf_band_ghz = Some(58), !.power_levels_mw = <<25, 200, 800>>] >>,
   rcReceivers |->
     << [Part("rc_elrs", "any", 5, <<>>) EXCEPT !.rf_band_ghz = Some(24)] >>,
   antennas |->
     << [Part("ant_rc_24", "any", 3, <<>>) EXCEPT
           !.rf_band_ghz = Some(24), !.application = "rc"],
        [Part("ant_vtx_58", "any", 4, <<>>) EXCEPT
           !.rf_band_ghz = Some(58), !.application = "vtx"] >>,
   cameras |-> << Part("cam_fpv", "air", 12, <<>>) >>,
   batteries |->
     << [Part("bat_4s_1500", "any", 180, <<>>) EXCEPT
           !.capacity_mah = 1500, !.voltage_nominal = 14800, !.s_cells = 4],
        [Part("bat_4s_5000", "any", 480, <<>>) EXCEPT
           !.capacity_mah = 5000, !.voltage_nominal = 14800, !.s_cells = 4] >>,
   compute |->
     << [Part("comp_pi", "any", 50, <<>>) EXCEPT !.power_draw_typical_w = 5] >>,
   auxRadios |-> <<>>,
   payloads |->
     << [Part("payload_eo", "any", 90, <<"recon">>) EXCEPT
           !.power_draw_typical_w = 4] >>]

\* the single-part slots of a selection and of a stack
SingleSlots ==
  <<"frame", "motorEsc", "flightController", "vtx", "rcReceiver", "rcAntenna",
    "vtxAntenna", "auxRadio", "auxRadioAntenna", "camera", "battery", "compute">>

\* the catalog category a single slot is looked up in
SlotCategory(slot) ==
  CASE slot = "frame" -> "frames"
    [] slot = "motorEsc" -> "motorsEsc"
    [] slot = "flightController" -> "flightControllers"
    [] slot = "vtx" -> "vtx"
    [] slot = "rcReceiver" -> "rcReceivers"
    [] slot \in {"rcAntenna", "vtxAntenna", "auxRadioAntenna"} -> "antennas"
    [] slot = "auxRadio" -> "auxRadios"
    [] slot = "camera" -> "cameras"
    [] slot = "battery" -> "batteries"
    [] slot = "compute" -> "compute"

\* an object literal that gives every single-part slot k the value F(k)
SlotRecord(F(_)) ==
  [frame |-> F("frame"), motorEsc |-> F("motorEsc"),
   flightController |-> F("flightController"), vtx |-> F("vtx"),
   rcReceiver |-> F("rcReceiver"), rcAntenna |-> F("rcAntenna"),
   vtxAntenna |-> F("vtxAntenna"), auxRadio |-> F("auxRadio"),
   auxRadioAntenna |-> F("auxRadioAntenna"), camera |-> F("camera"),
   battery |-> F("battery"), compute |-> F("compute")]

REQUIRED_PARTS ==
  << [key |-> "frame", label |-> "Frame"],
     [key |-> "motorEsc", label |-> "Propulsion"],
     [key |-> "battery", label |-> "Battery"],
     [key |-> "compute", label |-> "Compute"],
     [key |-> "rcReceiver", label |-> "Radio link"] >>

\* the catalog list behind each required slot
CatalogKey(slot) ==
  CASE slot = "frame" -> "frames"
    [] slot = "motorEsc" -> "motorsEsc"
    [] slot = "battery" -> "batteries"
    [] slot = "compute" -> "compute"
    [] slot = "rcReceiver" -> "rcReceivers"

filterByDomain(items, domain) ==
  LET Fits(item) == item.domain = domain \/ item.domain = "any" \/ item.domain = "multi"
  IN FilterSeq(Fits, items)

\* a lookup that settles for the first entry when no id matches
findByIdOrFirst(items, id) ==
  The({
     IF i # 0 THEN Some(items[i]) ELSE IF items = <<>> THEN None ELSE Some(items[1])
    : i \in {FindIndex(LAMBDA item : id = Some(item.id), items)} })

\* items.find(item => item.id === id) || null, for an id that may be undefined
findById(items, id) ==
  The({
     IF i = 0 THEN None ELSE Some(items[i])
    : i \in {FindIndex(LAMBDA item : id = Some(item.id), items)} })

\* filterByDomain(arr, domain)[0]?.id || arr[0]?.id
pickFirst(arr, domain) ==
  The({
     IF fit # <<>> THEN Some(fit[1].id)
     ELSE IF arr # <<>> THEN Some(arr[1].id) ELSE None
    : fit \in {filterByDomain(arr, domain)} })

\* catalog.antennas.filter((a) => a.application === application)
antennasFor(cat, application) ==
  FilterSeq(LAMBDA a : a.application = application, cat.antennas)

defaultSelections(cat, domain) ==
  [frame |-> pickFirst(cat.frames, domain),
   motorEsc |-> pickFirst(cat.motorsEsc, domain),
   flightController |-> pickFirst(cat.flightControllers, domain),
   vtx |-> pickFirst(cat.vtx, domain),
   rcReceiver |-> pickFirst(cat.rcReceivers, domain),
   rcAntenna |-> pickFirst(antennasFor(cat, "rc"), domain),
   vtxAntenna |-> pickFirst(antennasFor(cat, "vtx"), domain),
   auxRadio |-> pickFirst(cat.auxRadios, domain),
   auxRadioAntenna |-> pickFirst(antennasFor(cat, "aux_radio"), domain),
   camera |-> pickFirst(cat.cameras, domain),
   battery |-> pickFirst(cat.batteries, domain),
   compute |-> pickFirst(cat.compute, domain),
   payloads |-> <<>>]

\* A selection: defaults plus the properties ensureSelection and
\* readSelectionFromDom add.
SelectionOf(defaults, name, domain, payloads, nodePayloads) ==
  SlotRecord(LAMBDA k : defaults[k])
  @@ [name |-> name, domain |-> domain,
      payloads |-> payloads, nodePayloads |-> nodePayloads]

buildStack(cat, sel, domain, nodeLib, env) ==
  LET Resolve(id) == findById(cat.payloads, Some(id))
      NodeOf(id) ==
        LET i == FindIndex(LAMBDA n : n.id = Some(id), nodeLib)
        IN IF i = 0 THEN None ELSE Some(nodeLib[i])
  IN [name |-> OrStr(sel.name, Some("New Stack")),
      domain |-> domain,
      frame |-> findById(cat.frames, sel.frame),
      motorEsc |-> findById(cat.motorsEsc, sel.motorEsc),
      flightController |-> findById(cat.flightControllers, sel.flightController),
      vtx |-> findById(cat.vtx, sel.vtx),
      rcReceiver |-> findById(cat.rcReceivers, sel.rcReceiver),
      rcAntenna |-> findById(cat.antennas, sel.rcAntenna),
      vtxAntenna |-> findById(cat.antennas, sel.vtxAntenna),
      auxRadio |-> findById(cat.auxRadios, sel.auxRadio),
      auxRadioAntenna |-> findById(cat.antennas, sel.auxRadioAntenna),
      camera |-> findById(cat.cameras, sel.camera),
      battery |-> findById(cat.batteries, sel.battery),
      compute |-> findById(cat.compute, sel.compute),
      payloads |->
        MapSeq(LAMBDA o : o[1],
               FilterSeq(LAMBDA o : o # None, MapSeq(Resolve, sel.payloads))),
      nodePayloads |->
        MapSeq(LAMBDA o : o[1],
               FilterSeq(LAMBDA o : o # None, MapSeq(NodeOf, sel.nodePayloads))),
      mountedNodeIds |-> sel.nodePayloads,
      environment |-> env]

\* a check that never reports a missing part
missingRequiredPartsNone(stack) == <<>>

\* stack === null is written None; a built stack is Some(stack)
missingRequiredParts(stack) ==
  IF stack = None THEN MapSeq(LAMBDA p : p.label, REQUIRED_PARTS)
  ELSE MapSeq(LAMBDA p : p.label,
              FilterSeq(LAMBDA p : stack[1][p.key] = None, REQUIRED_PARTS))

RECURSIVE SumSeq(_)
SumSeq(s) == IF s = <<>> THEN 0 ELSE Head(s) + SumSeq(Tail(s))

Larger(a, b) == IF a > b THEN a ELSE b

RECURSIVE MaxSeq(_)
\* Math.max(...s) of a non-empty list
MaxSeq(s) == IF Len(s) = 1 THEN s[1] ELSE Larger(Head(s), MaxSeq(Tail(s)))

\* item?.weight_grams || 0
WeightOf(slot) == IF slot = None THEN 0 ELSE slot[1].weight_grams

\* A quotient the evaluator computes, kept as the exact fraction num/den in
\* lowest terms (den > 0).
RECURSIVE GCD(_, _)
GCD(a, b) == IF b = 0 THEN a ELSE GCD(b, a % b)
Ratio(n, d) == [num |-> n \div GCD(n, d), den |-> d \div GCD(n, d)]
RatTimes(x, y) == Ratio(x.num * y.num, x.den * y.den)
\* r * n / d
RatScale(r, n, d) == RatTimes(Ratio(r.num, d), Ratio(n, r.den))
\* the comparisons cross-multiply after cancelling what the two numerators
\* and the two denominators share
Common(x, y) == IF x = 0 /\ y = 0 THEN 1 ELSE GCD(x, y)
RatLess(a, b) ==
  (a.num \div Common(a.num, b.num)) * (b.den \div Common(a.den, b.den))
    < (b.num \div Common(a.num, b.num)) * (a.den \div Common(a.den, b.den))
RatLeq(a, b) == a = b \/ RatLess(a, b)

\* model units per watt (powerBudget)
WattScale == 10000
\* constraintPrefs.minTwr counts tenths
TwrScale == 10
\* thrustEfficiency, powerPenalty and capacityFactor count hundredths
Percent == 100

altitudeBands ==
  << [id |-> "sea_level", thrustEfficiency |-> 100, powerPenalty |-> 0],
     [id |-> "high_desert", thrustEfficiency |-> 90, powerPenalty |-> 12],
     [id |-> "mountain", thrustEfficiency |-> 82, powerPenalty |-> 22] >>
temperatureBands ==
  << [id |-> "hot", capacityFactor |-> 97],
     [id |-> "standard", capacityFactor |-> 100],
     [id |-> "cold", capacityFactor |-> 90],
     [id |-> "freezing", capacityFactor |-> 80] >>
\* the option values of a band select
BandIds(bands) == MapSeq(LAMBDA b2 : b2.id, bands)
\* a lookup that falls back to the last band of the table
resolveAltitudeLast(id) ==
  The({
     IF i = 0 THEN altitudeBands[Len(altitudeBands)] ELSE altitudeBands[i]
    : i \in {FindIndex(LAMBDA b2 : b2.id = id, altitudeBands)} })
resolveAltitude(id) ==
  The({
     IF i = 0 THEN altitudeBands[1] ELSE altitudeBands[i]
    : i \in {FindIndex(LAMBDA b2 : b2.id = id, altitudeBands)} })
resolveTemperature(id) ==
  The({
     IF i = 0 THEN temperatureBands[2] ELSE temperatureBands[i]
    : i \in {FindIndex(LAMBDA b2 : b2.id = id, temperatureBands)} })

\* battery energy in thousandths of a watt-hour (mAh * mV / 1000)
calculateEnergyWh(battery) ==
  IF battery = None THEN 0
  ELSE (battery[1].capacity_mah * battery[1].voltage_nominal) \div 1000

\* in WattScale-ths of a watt: amperes * motors * millivolts * hundredths
\* of throttle is 100000-ths of a watt
propulsionPower(stack) ==
  IF stack.motorEsc = None \/ stack.battery = None THEN 0
  ELSE (stack.motorEsc[1].max_current_per_motor_a * stack.motorEsc[1].motor_count
          * stack.battery[1].voltage_nominal
          * (IF stack.domain = "air" THEN 38 ELSE 22)) \div 10

\* the avionics draw with nothing charged for an absent receiver or
\* flight controller
avionicsPowerPresentOnly(stack) ==
  (IF stack.compute = None THEN 0 ELSE stack.compute[1].power_draw_typical_w * WattScale)
  + (IF stack.auxRadio = None THEN 0
     ELSE IF stack.auxRadio[1].duty_cycle_profile = "continuous"
          THEN 10 * WattScale ELSE 6 * WattScale)
  + (IF stack.vtx = None THEN 0 ELSE MaxSeq(stack.vtx[1].power_levels_mw) * 13)
  + (IF stack.rcReceiver = None THEN 0 ELSE 12000)
  + (IF stack.flightController = None THEN 0 ELSE 2 * WattScale)

\* computePower + auxPower + vtxPower + rcPower + fcPower, with
\* rcPower = stack.rcReceiver ? 1.2 : 0.8 and fcPower = stack.flightController ? 2 : 1
avionicsPower(stack) ==
  (IF stack.compute = None THEN 0 ELSE stack.compute[1].power_draw_typical_w * WattScale)
  + (IF stack.auxRadio = None THEN 0
     ELSE IF stack.auxRadio[1].duty_cycle_profile = "continuous"
          THEN 10 * WattScale ELSE 6 * WattScale)
  + (IF stack.vtx = None THEN 0 ELSE MaxSeq(stack.vtx[1].power_levels_mw) * 13)
  + (IF stack.rcReceiver = None THEN 8000 ELSE 12000)
  + (IF stack.flightController = None THEN WattScale ELSE 2 * WattScale)

\* one entry of result.warnings: the fixed part of the message and the
\* configured threshold a constraint message embeds
WarningBare(text, threshold) == [text |-> text, threshold |-> None]
Warning(text, threshold) == [text |-> text, threshold |-> threshold]
WarnIf(cond, text, threshold) == IF cond THEN <<Warning(text, threshold)>> ELSE <<>>

\* |a.rf_band_ghz - b.rf_band_ghz| > 0.5 for two resolved parts; with a band
\* that is undefined the difference is NaN and the comparison false
BandMismatch(a, b) ==
  /\ a # None /\ b # None
  /\ a[1].rf_band_ghz # None /\ b[1].rf_band_ghz # None
  /\ \/ a[1].rf_band_ghz[1] - b[1].rf_band_ghz[1] > 5
     \/ b[1].rf_band_ghz[1] - a[1].rf_band_ghz[1] > 5

\* the warnings list, in push order
stackWarnings(stack, constraints, totalWeight, payloadCapacity, thrustToWeight, adjustedThrustToWeight, adjustedEnduranceMinutes) ==
  WarnIf(/\ stack.frame # None /\ stack.battery # None
         /\ stack.battery[1].s_cells
              \notin SeqRange(stack.frame[1].recommended_battery_s_cells),
         "Battery cell count outside frame recommendation", None)
  \o WarnIf(/\ stack.motorEsc # None /\ stack.battery # None
            /\ stack.battery[1].s_cells
                 \notin SeqRange(stack.motorEsc[1].voltage_range_s_cells),
            "Battery cells outside motor/ESC range", None)
  \o WarnIf(stack.frame # None /\ payloadCapacity # 0 /\ totalWeight > payloadCapacity,
            "All-up weight exceeds frame limit", None)
  \o WarnIf(stack.domain = "air" /\ RatLess(thrustToWeight, Ratio(13, 10)),
            "Thrust-to-weight under 1.3 limits climb margin", None)
  \o (IF stack.domain = "air" /\ RatLess(adjustedThrustToWeight, Ratio(13, 10))
      THEN <<Warning("Adjusted thrust-to-weight under 1.3 in current environment band", None)>>
      ELSE WarnIf(stack.domain = "air" /\ RatLess(adjustedThrustToWeight, Ratio(14, 10)),
                  "Adjusted thrust margin is thin; consider more thrust or lighter payloads",
                  None))
  \o WarnIf(/\ stack.motorEsc # None /\ stack.frame # None
            /\ \/ stack.frame[1].form_factor = None
               \/ stack.frame[1].form_factor[1]
                    \notin SeqRange(stack.motorEsc[1].compatible_frame_form_factors),
            "Motor/ESC set not tagged for this frame form factor", None)
  \o WarnIf(BandMismatch(stack.vtx, stack.vtxAntenna), "VTX antenna band mismatch", None)
  \o WarnIf(BandMismatch(stack.rcReceiver, stack.rcAntenna), "RC antenna band mismatch", None)
  \o WarnIf(BandMismatch(stack.auxRadio, stack.auxRadioAntenna),
            "Aux radio antenna band mismatch", None)
  \o WarnIf(TruthyNum(constraints.maxAuw)
              /\ totalWeight * GramScale > constraints.maxAuw[1],
            "All-up weight exceeds configured max", constraints.maxAuw)
  \o WarnIf(TruthyNum(constraints.minTwr)
              /\ RatLess(adjustedThrustToWeight, Ratio(constraints.minTwr[1], TwrScale)),
            "Adjusted thrust-to-weight below minimum", constraints.minTwr)
  \o WarnIf(TruthyNum(constraints.minEndurance)
              /\ RatLess(adjustedEnduranceMinutes, Ratio(constraints.minEndurance[1], 1)),
            "Adjusted endurance below minimum", constraints.minEndurance)

\* sum of the payload and node-payload masses, in grams
payloadMassOf(stack) ==
  SumSeq(MapSeq(LAMBDA p : p.weight_grams, stack.payloads))
  + SumSeq(MapSeq(LAMBDA p : p.weight_grams, stack.nodePayloads))

\* sum(weights), in grams
totalWeightOf(stack) ==
  SumSeq(MapSeq(LAMBDA k : WeightOf(stack[k]), SingleSlots)) + payloadMassOf(stack)

thrustTotalOf(stack) ==
  IF stack.motorEsc = None THEN 0
  ELSE stack.motorEsc[1].max_thrust_per_motor_g * stack.motorEsc[1].motor_count

\* propulsion + avionicsPower(stack) + payloadPower
powerBudgetOf(stack) ==
  propulsionPower(stack) + avionicsPower(stack)
  + WattScale * SumSeq(MapSeq(LAMBDA p : p.power_draw_typical_w,
                              stack.payloads \o stack.nodePayloads))

\* a quotient computed without the guard on totalWeight
thrustRatioUnguarded(thrustTotal, totalWeight, efficiency) ==
  [num |-> thrustTotal * efficiency, den |-> totalWeight * Percent]

\* totalWeight > 0 ? (thrustTotal * efficiency) / totalWeight : 0
thrustRatio(thrustTotal, totalWeight, efficiency) ==
  IF totalWeight > 0
  THEN RatScale(Ratio(thrustTotal, totalWeight), efficiency, Percent)
  ELSE Ratio(0, 1)

\* the endurance with neither derating factor applied
enduranceRatioNominal(energy, powerBudget, capacityFactor, penalty) ==
  IF powerBudget > 0 THEN Ratio(energy * 540, powerBudget) ELSE Ratio(0, 1)

\* power > 0 ? (capacity / power) * 60 : 0 in minutes, for a capacity of
\* energy * 0.9 * capacityFactor and a power of powerBudget * (1 + penalty)
enduranceRatio(energy, powerBudget, capacityFactor, penalty) ==
  IF powerBudget > 0
  THEN RatScale(Ratio(energy * 540, powerBudget), capacityFactor, Percent + penalty)
  ELSE Ratio(0, 1)

\* the returned object, from the figures computed before the warnings
stackResult(stack, constraints, altitude, temperature, totalWeight, payloadCapacity, powerBudget, thrustToWeight, adjustedThrustToWeight, enduranceMinutes, adjustedEnduranceMinutes) ==
  [totalWeight |-> totalWeight * GramScale,
   thrustToWeight |-> thrustToWeight,
   adjustedThrustToWeight |-> adjustedThrustToWeight,
   enduranceMinutes |-> enduranceMinutes,
   adjustedEnduranceMinutes |-> adjustedEnduranceMinutes,
   powerBudget |-> powerBudget,
   payloadMass |-> payloadMassOf(stack) * GramScale,
   payloadCapacity |-> payloadCapacity,
   warnings |->
     stackWarnings(stack, constraints, totalWeight, payloadCapacity,
                   thrustToWeight, adjustedThrustToWeight, adjustedEnduranceMinutes),
   environment |-> [altitude |-> altitude.id, temperature |-> temperature.id]]

\* the figures of one evaluation, for the resolved bands and the sums
stackFigures(stack, constraints, altitude, temperature, totalWeight, thrustTotal, powerBudget) ==
  stackResult(stack, constraints, altitude, temperature, totalWeight,
              IF stack.frame = None THEN 0 ELSE stack.frame[1].max_auw_grams,
              powerBudget,
              thrustRatio(thrustTotal, totalWeight, Percent),
              thrustRatio(thrustTotal, totalWeight, altitude.thrustEfficiency),
              enduranceRatio(calculateEnergyWh(stack.battery), powerBudget, Percent, 0),
              enduranceRatio(calculateEnergyWh(stack.battery), powerBudget,
                             temperature.capacityFactor, altitude.powerPenalty))

\* The Evaluation Result.  totalWeight and payloadMass in GramScale-ths of a
\* gram, payloadCapacity in grams, powerBudget in WattScale-ths of a watt,
\* the thrust-to-weight and endurance (minutes) figures as exact fractions;
\* totalCost and roleTags are not followed.
evaluateStack(stack, env, constraints) ==
  stackFigures(stack, constraints,
               resolveAltitude(OrStr(Some(env.altitude), Some("sea_level"))[1]),
               resolveTemperature(OrStr(Some(env.temperature), Some("standard"))[1]),
               totalWeightOf(stack), thrustTotalOf(stack), powerBudgetOf(stack))

----------------------------------------------------------------------------
(* Session state of web/dist/ui.js, as one record per session.            *)
(* The operators below take a session and return the session after the    *)
(* function has run; the actions further down apply them to the variables. *)

DEFAULT_MISSION_META ==
  [BlankMission EXCEPT
     !.id = Some("mission-local"), !.name = Some("Ad hoc mission"),
     !.origin_tool = Some(ORIGIN_TOOL)]

\* `${baseId}` for an id that may be undefined
IdText(id) == IF id = None THEN "undefined" ELSE id[1]

\* The three components one node of the library is offered as.  power is
\* node.power_draw_typical_w || node.power_draw_w || 0 and the library's
\* nodes have no power_draw_w; the compute component draws power || 5; the
\* radio component has no power draw of its own.
nodePayloadComponent(node) ==
  [Part(IdText(node.id) \o "-payload", "any", node.weight_grams, <<>>) EXCEPT
     !.subtype = Some("sensor_pod"),
     !.power_draw_typical_w = node.power_draw_typical_w,
     !.role_tags = node.role_tags]
nodeComputeComponent(node) ==
  [Part(IdText(node.id) \o "-compute", "any", node.weight_grams, <<>>) EXCEPT
     !.subtype = Some("imported_node"),
     !.power_draw_typical_w =
        IF node.power_draw_typical_w # 0 THEN node.power_draw_typical_w ELSE 5,
     !.role_tags = node.role_tags]
nodeRadioComponent(node) ==
  [Part(IdText(node.id) \o "-radio", "any", node.weight_grams, <<>>) EXCEPT
     !.subtype = Some("data_link"),
     !.rf_band_ghz = node.rf_band_ghz,
     !.duty_cycle_profile = "continuous",
     !.role_tags = node.role_tags]

deriveNodeComponents(nodes) ==
  [payloads |-> MapSeq(nodePayloadComponent, nodes),
   compute |-> MapSeq(nodeComputeComponent, nodes),
   radios |-> MapSeq(nodeRadioComponent, nodes)]

\* catalogWithNodes || catalog; catalogWithNodes is set from the first
\* refreshCatalogWithNodes of main on
getCatalog(s) == s.catalogWithNodes

\* { ...base, ...over } for an object `over` that came from JSON: it holds a
\* key exactly when the key's value is defined
SpreadDefined(base, over) ==
  [k \in DOMAIN base |-> IF over[k] # None THEN over[k] ELSE base[k]]

\* { ...base, ...over } for an object literal `over` that sets the keys `keys`,
\* some of them to undefined
SpreadKeys(base, over, keys) ==
  [k \in DOMAIN base |-> IF k \in keys THEN over[k] ELSE base[k]]

\* setting select.value to a string that is no option leaves the select with
\* no selection, and its value reads ''
DomSelect(options, v) == IF v \in SeqRange(options) THEN v ELSE ""

PersistedBlob(s) ==
  [selection |-> s.selection, nodeLibrary |-> s.nodeLibrary,
   savedPlatforms |-> s.savedPlatforms, missionMeta |-> s.missionMeta,
   meshLinks |-> s.meshLinks, kits |-> s.kits,
   environment |-> s.environment, constraints |-> s.constraintPrefs]

\* a persistAppState that writes nothing
persistAppStateSkipped(s) == s

persistAppState(s) == [s EXCEPT !.persisted = Some(PersistedBlob(s))]

\* a refresh that leaves catalogWithNodes as it was
refreshCatalogWithNodesSkipped(s) == s

refreshCatalogWithNodes(s) ==
  The({
     [s EXCEPT !.catalogWithNodes =
        [payloads |-> s.catalog.payloads \o derived.payloads,
         compute |-> s.catalog.compute \o derived.compute,
         auxRadios |-> s.catalog.auxRadios \o derived.radios] @@ s.catalog]
    : derived \in {deriveNodeComponents(s.nodeLibrary)} })

\* What readSelectionFromDom finds in the DOM when no user input came since
\* the controls were last written: the selects mirror the selection, the
\* node-payload select offers the current node library (renderNodeOptions),
\* the band selects hold what was assigned to them, the constraint inputs
\* what hydrateConstraintInputs wrote.
DomMirror(s) ==
  SlotRecord(LAMBDA k : s.selection[k])
  @@ [name |-> s.selection.name, domain |-> s.selection.domain,
      payloads |-> s.selection.payloads,
      nodePayloads |->
        MapSeq(LAMBDA n : n.id[1],
               FilterSeq(LAMBDA n : n.id # None /\ n.id[1] \in SeqRange(s.selection.nodePayloads),
                         s.nodeLibrary)),
      altitude |-> DomSelect(BandIds(altitudeBands), s.environment.altitude),
      temperature |-> DomSelect(BandIds(temperatureBands), s.environment.temperature),
      constraints |-> s.constraintPrefs]

\* evaluateAndRender with the DOM holding `dom`
evaluateAndRender(s, dom) ==
  The({
  The({
  The({
  The({
  The({
     IF Len(missing) > 0
     THEN persistAppState([s1 EXCEPT !.lastResult = None, !.evaluatorRan = FALSE])
     ELSE persistAppState(
            [s1 EXCEPT !.lastResult = Some(evaluateStack(stack, env, dom.constraints)),
                       !.evaluatorRan = TRUE])
    : s1 \in {[s EXCEPT !.selection = sel, !.environment = env,
                      !.constraintPrefs = dom.constraints,
                      !.lastStack = Some(stack)]} })
    : missing \in {missingRequiredParts(Some(stack))} })
    : stack \in {buildStack(getCatalog(s), sel, dom.domain[1], s.nodeLibrary, env)} })
    : env \in {[altitude |-> dom.altitude, temperature |-> dom.temperature]} })
    : sel \in {SlotRecord(LAMBDA k : dom[k])
       @@ [name |-> dom.name, domain |-> dom.domain,
           payloads |-> dom.payloads, nodePayloads |-> dom.nodePayloads]} })

\* crypto.randomUUID(): a fresh id, here the next of a fixed list
Uuids == <<"plt-uuid-1", "plt-uuid-2", "plt-uuid-3", "plt-uuid-4">>

savePlatformSnapshot(s) ==
  The({
     IF s1.lastResult = None THEN s1
     ELSE
     The({
        persistAppState(
          [s1 EXCEPT
             !.savedPlatforms =
                <<entry>> \o FilterSeq(LAMBDA p : p.id # entry.id, s1.savedPlatforms),
             !.uuidCount = s1.uuidCount + 1])
       : entry \in
           {[id |-> Some(Uuids[s1.uuidCount + 1]),
             name |-> OrStr(s1.selection.name, Some("Platform")),
             frameType |->
               OrStr(OrStr(s1.lastStack[1].frame[1].form_factor,
                           s1.lastStack[1].frame[1].subtype),
                     Some(s1.lastStack[1].frame[1].id)),
             origin_tool |-> Some(ORIGIN_TOOL),
             selection |-> s1.selection,
             environment |-> s1.environment,
             constraints |-> s1.constraintPrefs,
             metrics |-> [totalWeight |-> s1.lastResult[1].totalWeight,
                          powerBudget |-> Some(s1.lastResult[1].powerBudget)],
             roleTags |-> <<>>,
             mountedNodes |-> s1.selection.nodePayloads,
             geo |-> None]} })
    : s1 \in {IF s.lastResult = None \/ s.lastStack = None
              THEN evaluateAndRender(s, DomMirror(s)) ELSE s} })

----------------------------------------------------------------------------
(* MissionProject import *)

sanitizeLocation(loc) ==
  IF loc = None \/ loc[1].lat = None \/ loc[1].lon = None THEN None
  ELSE Some([lat |-> loc[1].lat, lon |-> loc[1].lon])

\* Date.now() in `platform-${Date.now()}`
MintedPlatformId == "platform-now"

\* toFixed(3) of a kilogram figure, then Number(): the nearest multiple of
\* RoundStep units
Round3(x) == ((x + (RoundStep \div 2)) \div RoundStep) * RoundStep

missionPlatformToSnapshot(p, s) ==
  The({
  The({
  The({
  The({
  The({
     [id |-> OrStr(p.id, Some(MintedPlatformId)),
      name |-> OrStr(p.name, Some("Imported platform")),
      frameType |-> OrStr(OrStr(OrStr(p.frame_type, p.frame), defaults.frame), Some("frame")),
      origin_tool |-> OrStr(p.origin_tool, Some(ORIGIN_TOOL)),
      selection |->
        [SelectionOf(defaults, None, domain, payloads, nodePayloads) EXCEPT
           !.frame = OrStr(pickField(p, <<"frame", "frame_type", "frameType">>),
                           defaults.frame)],
      environment |->
        [altitude |-> OrStr(p.envAltitudeBand, Some(s.environment.altitude))[1],
         temperature |-> OrStr(p.envTemperatureBand, Some(s.environment.temperature))[1]],
      constraints |-> s.constraintPrefs,
      metrics |->
        [totalWeight |-> IF auw # None THEN auw[1] ELSE 0,
         powerBudget |-> OrNum(OrNum(p.power_budget_w, p.powerBudgetW), None)],
      roleTags |-> Nullish(Nullish(p.mission_roles, p.missionRoles), Some(<<>>))[1],
      mountedNodes |-> nodePayloads,
      geo |-> sanitizeLocation(p.location)]
    : auw \in {Nullish(p.auw_kg, p.auwKg)} })
    : nodePayloads \in {Nullish(Nullish(p.mounted_node_ids, p.mountedNodeIds), Some(<<>>))[1]} })
    : payloads \in {Nullish(Nullish(p.payload_ids, p.payloadIds), Some(defaults.payloads))[1]} })
    : defaults \in {defaultSelections(getCatalog(s), domain[1])} })
    : domain \in {OrStr(OrStr(p.domain, s.selection.domain), Some("air"))} })

\* one entry of nodeLibrary, from a normalized bundle node
missionNodeToLibrary(n) ==
  [id |-> OrStr(n.id, n.name),
   name |-> OrStr(n.name, Some("Imported node")),
   weight_grams |-> OrNum(OrNum(n.weight_grams, n.weightGrams), Some(0))[1],
   power_draw_typical_w |->
     OrNum(OrNum(OrNum(n.power_w, n.power_draw_w), n.powerDrawW), Some(0))[1],
   role_tags |-> Nullish(Nullish(n.role, n.role_tags), Some(RoleList(<<>>)))[1],
   origin_tool |-> OrStr(n.origin_tool, Some("node")),
   notes |-> OrStr(n.notes, Some("Imported from MissionProject")),
   location |-> sanitizeLocation(n.location),
   rf_band_ghz |-> None]

\* renderNodeLibrary joins every node's role_tags: a TypeError when one of
\* them is not an array
renderNodeLibraryThrows(s) ==
  \E i \in 1..Len(s.nodeLibrary) : ~s.nodeLibrary[i].role_tags.isArray

\* applyMissionProject up to and including refreshCatalogWithNodes and
\* renderNodeOptions: every assignment to the session
applyAssignments(s, project) ==
  The({
  The({
  The({
  The({
  The({
  The({
  The({
  The({
  The({
  The({
     refreshCatalogWithNodes(s2)
    : s2 \in {[s1 EXCEPT
               !.nodeLibrary = MapSeq(missionNodeToLibrary, ListOf(bundle.nodes)),
               !.savedPlatforms =
                  FilterSeq(LAMBDA e : TruthyStr(e.id),
                            MapSeq(LAMBDA p : missionPlatformToSnapshot(p, s1),
                                   ListOf(bundle.platforms)))]} })
    : s1 \in {[s EXCEPT
               !.importedMissionProject = Some(normalized),
               !.missionMeta =
                  IF bundle.mission = None THEN s.missionMeta
                  ELSE SpreadDefined(s.missionMeta, bundle.mission[1]),
               !.meshLinks = Nullish(Nullish(bundle.meshLinks, bundle.mesh_links), Some(<<>>))[1],
               !.kits = ListOf(bundle.kits),
               !.environment = environment,
               !.constraintPrefs = constraintPrefs]} })
    : constraintPrefs \in {[minTwr |->
           Nullish(Nullish(c.minThrustToWeight, c.min_thrust_to_weight),
                   s.constraintPrefs.minTwr),
         minEndurance |->
           Nullish(Nullish(c.minAdjustedEnduranceMin, c.min_adjusted_endurance_min),
                   s.constraintPrefs.minEndurance),
         maxAuw |->
           Nullish(Nullish(c.maxAuwKg, c.max_auw_kg), s.constraintPrefs.maxAuw)]} })
    : environment \in {[altitude |->
           OrStr(pickField(env, <<"altitudeBand", "altitude_band">>),
                 Some(s.environment.altitude))[1],
         temperature |->
           OrStr(pickField(env, <<"temperatureBand", "temperature_band">>),
                 Some(s.environment.temperature))[1]]} })
    : c \in {IF cs # <<>> THEN cs[1] ELSE BlankConstraint} })
    : cs \in {ListOf(bundle.constraints)} })
    : env \in {IF envs # <<>> THEN envs[1] ELSE BlankEnv} })
    : envs \in {ListOf(bundle.environment)} })
    : bundle \in {normalized.body} })
    : normalized \in {upgradeMissionBundle(project)} })

\* applyMissionProject: [threw, s]. threw: an exception left it, and s is
\* the session at that moment
applyMissionProject(s, project) ==
  The({
     IF renderNodeLibraryThrows(s3) THEN [threw |-> TRUE, s |-> s3]
     ELSE [threw |-> FALSE,
           s |-> persistAppState(evaluateAndRender(s3, DomMirror(s3)))]
    : s3 \in {applyAssignments(s, project)} })

----------------------------------------------------------------------------
(* MissionProject Merger/Builder *)

\* a merge that keeps only the overlay
MapSetAllOverlayOnly(m, es, keys) == FilterSeq(LAMBDA e : TruthyStr(e.id), es)

\* A Map keyed by id, kept as the sequence of its values in insertion order.
\* For every e of es with an id: map.set(e.id, { ...(map.get(e.id) || {}), ...e })
\* where e is an object that sets the keys `keys`.
RECURSIVE MapSetAll(_, _, _)
MapSetAll(m, es, keys) ==
  IF es = <<>> THEN m
  ELSE LET e == Head(es)
           i == FindIndex(LAMBDA x : x.id = e.id, m)
           m1 == IF ~TruthyStr(e.id) THEN m
                 ELSE IF i = 0 THEN Append(m, e)
                 ELSE [m EXCEPT ![i] = SpreadKeys(m[i], e, keys)]
       IN MapSetAll(m1, Tail(es), keys)

\* the keys of the object literal snapshotToPlatform returns
PlatformOverlayKeys ==
  {"id", "name", "origin_tool", "domain", "frameType", "payloadIds",
   "mountedNodeIds", "powerBudgetW", "batteryWh", "auwKg", "missionRoles",
   "environmentRef", "envAltitudeBand", "envTemperatureBand", "constraintsRef",
   "location", "notes"}

\* the keys the node overlay of buildMissionProjectPayload sets
NodeOverlayKeys ==
  {"id", "name", "role", "origin_tool", "power_draw_w", "weight_grams",
   "rf_band_ghz", "location", "notes"}

EnvOverlayKeys == {"id", "altitudeBand", "temperatureBand", "notes"}
ConstraintOverlayKeys ==
  {"id", "minThrustToWeight", "minAdjustedEnduranceMin", "maxAuwKg"}

snapshotToPlatform(entry, envId, constraintId, workingCatalog) ==
  LET battery == IF TruthyStr(entry.selection.battery)
                 THEN findById(workingCatalog.batteries, entry.selection.battery)
                 ELSE None
      batteryWh == IF battery # None
                   THEN Some((battery[1].capacity_mah * battery[1].voltage_nominal) \div 1000)
                   ELSE None
  IN [BlankPlatform EXCEPT
        !.id = entry.id,
        !.name = entry.name,
        !.origin_tool = OrStr(entry.origin_tool, Some(ORIGIN_TOOL)),
        !.domain = OrStr(entry.selection.domain, Some("air")),
        !.frameType = OrStr(OrStr(entry.frameType, entry.selection.frame), Some("frame")),
        !.payloadIds = Some(entry.selection.payloads),
        !.mountedNodeIds = Some(entry.mountedNodes),
        !.powerBudgetW = OrNum(entry.metrics.powerBudget, None),
        !.batteryWh = batteryWh,
        !.auwKg = Some(Round3(entry.metrics.totalWeight)),
        !.missionRoles = Some(entry.roleTags),
        !.environmentRef = Some(envId),
        !.envAltitudeBand = Some(entry.environment.altitude),
        !.envTemperatureBand = Some(entry.environment.temperature),
        !.constraintsRef = Some(constraintId),
        !.location = entry.geo,
        !.notes = None]

\* the overlay a node-library entry contributes
libraryNodeToEntry(n) ==
  [BlankNode EXCEPT
     !.id = n.id,
     !.name = n.name,
     !.role = Some(n.role_tags),
     !.origin_tool = OrStr(n.origin_tool, Some("node")),
     !.power_draw_w = Some(n.power_draw_typical_w),
     !.weight_grams = Some(n.weight_grams),
     !.rf_band_ghz = OrNum(n.rf_band_ghz, None),
     !.location = sanitizeLocation(n.location),
     !.notes = n.notes]

\* a placement that always puts the entry in front
placeSingletonInFront(entries, entry, keys) == <<entry>> \o entries

\* entries[i] = { ...entries[i], ...entry } at the first i with the entry's
\* id, else entries.unshift(entry)
placeSingleton(entries, entry, keys) ==
  LET i == FindIndex(LAMBDA e : e.id = entry.id, entries)
  IN IF i > 0 THEN [entries EXCEPT ![i] = SpreadKeys(entries[i], entry, keys)]
     ELSE <<entry>> \o entries

exportEnvId(s, innerBase) ==
  LET envs == ListOf(innerBase.environment)
      first == IF envs # <<>> THEN envs[1].id ELSE None
  IN OrStr(OrStr(s.missionMeta.environment_id, first), Some("env-local"))[1]

exportConstraintId(s, innerBase) ==
  LET cs == ListOf(innerBase.constraints)
      first == IF cs # <<>> THEN cs[1].id ELSE None
  IN OrStr(OrStr(s.missionMeta.constraint_id, first), Some("cst-local"))[1]

\* upgradeMissionBundle(importedMissionProject || {}) unwrapped
innerBaseOf(s) ==
  upgradeMissionBundle(
    IF s.importedMissionProject # None THEN s.importedMissionProject[1]
    ELSE JsonObject(FALSE, None, BlankBody)).body

buildMissionProjectPayload(s) ==
  LET workingCatalog == getCatalog(s)
      innerBase == innerBaseOf(s)
      envId == exportEnvId(s, innerBase)
      constraintId == exportConstraintId(s, innerBase)
      environmentEntry ==
        [BlankEnv EXCEPT
           !.id = Some(envId),
           !.altitudeBand = Some(s.environment.altitude),
           !.temperatureBand = Some(s.environment.temperature),
           !.notes = OrStr(s.missionMeta.environment_notes,
                           Some("Captured from UI environment selectors"))]
      constraintEntry ==
        [BlankConstraint EXCEPT
           !.id = Some(constraintId),
           !.minThrustToWeight = s.constraintPrefs.minTwr,
           !.minAdjustedEnduranceMin = s.constraintPrefs.minEndurance,
           !.maxAuwKg = s.constraintPrefs.maxAuw]
      platformEntries ==
        MapSeq(LAMBDA p : snapshotToPlatform(p, envId, constraintId, workingCatalog),
               s.savedPlatforms)
      \* mergedPlatforms.set(p.id, p): the whole value is replaced
      basePlatforms ==
        MapSetAll(<<>>, ListOf(innerBase.platforms), DOMAIN BlankPlatform)
      mergedPlatforms == MapSetAll(basePlatforms, platformEntries, PlatformOverlayKeys)
      baseNodes == MapSetAll(<<>>, ListOf(innerBase.nodes), DOMAIN BlankNode)
      nodeEntries ==
        MapSetAll(baseNodes, MapSeq(libraryNodeToEntry, s.nodeLibrary), NodeOverlayKeys)
      innerMission == IF innerBase.mission # None THEN innerBase.mission[1] ELSE BlankMission
      bundle ==
        [innerBase EXCEPT
           !.schemaVersion = OrStr(innerBase.schemaVersion, Some(MISSIONPROJECT_SCHEMA_VERSION)),
           !.version = OrStr(innerBase.version, Some(MISSIONPROJECT_SCHEMA_VERSION)),
           !.origin_tool = OrStr(innerBase.origin_tool, Some(ORIGIN_TOOL)),
           !.mission =
              Some([SpreadDefined(innerMission, s.missionMeta) EXCEPT
                      !.origin_tool =
                         OrStr(OrStr(s.missionMeta.origin_tool, innerBase.origin_tool),
                               Some(ORIGIN_TOOL))]),
           !.environment =
              Some(placeSingleton(ListOf(innerBase.environment), environmentEntry,
                                  EnvOverlayKeys)),
           !.constraints =
              Some(placeSingleton(ListOf(innerBase.constraints), constraintEntry,
                                  ConstraintOverlayKeys)),
           !.nodes = Some(nodeEntries),
           !.platforms = Some(mergedPlatforms),
           !.meshLinks =
              Nullish(Nullish(innerBase.meshLinks, innerBase.mesh_links), Some(s.meshLinks)),
           !.kits = Nullish(innerBase.kits, Some(s.kits))]
  IN JsonObject(s.importedMissionProject # None /\ s.importedMissionProject[1].wrapped,
                None, bundle)

----------------------------------------------------------------------------
(* File handlers *)

\* a file whose text JSON.parse rejects
Unparseable == [kind |-> "unparseable", wrapped |-> FALSE, sibling |-> None, body |-> BlankBody]

\* handleMissionImport: [outcome, s]; outcome "error" is the catch branch
handleMissionImport(s, file) ==
  IF file.kind = "unparseable" THEN [outcome |-> "error", s |-> s]
  ELSE The({
         [outcome |-> IF r.threw THEN "error" ELSE "ok", s |-> r.s]
    : r \in {applyMissionProject(s, file)} })

\* one entry of parseNodeDesigns, from a Node Architect design
designToLibrary(n) ==
  [id |-> OrStr(n.id, n.name),
   name |-> OrStr(n.name, Some("Imported node")),
   weight_grams |-> OrNum(n.weight_grams, Some(0))[1],
   power_draw_typical_w |-> OrNum(OrNum(n.power_w, n.power_draw_w), Some(0))[1],
   role_tags |-> Nullish(n.role_tags, Some(RoleList(<<>>)))[1],
   origin_tool |-> OrStr(n.origin_tool, Some("node")),
   notes |-> OrStr(n.notes, Some("Imported from Node Architect export")),
   location |-> None,
   rf_band_ghz |-> None]

parseNodeDesigns(designs) ==
  FilterSeq(LAMBDA n : TruthyStr(n.id), MapSeq(designToLibrary, designs))

\* handleNodeImport for a file that parses to the designs `designs`
handleNodeImport(s, designs) ==
  The({
  The({
     IF parsed = <<>> THEN s
     ELSE IF renderNodeLibraryThrows(s1) THEN s1
     ELSE evaluateAndRender(persistAppState(s1), DomMirror(s1))
    : s1 \in {refreshCatalogWithNodes([s EXCEPT !.nodeLibrary = parsed])} })
    : parsed \in {parseNodeDesigns(designs)} })

\* handleNodeImport ends in its catch branch
handleNodeImportThrows(s, designs) ==
  \/ parseNodeDesigns(designs) = <<>>
  \/ renderNodeLibraryThrows([s EXCEPT !.nodeLibrary = parseNodeDesigns(designs)])

----------------------------------------------------------------------------
(* GeoJSON projection *)

\* One feature of the collection: its geometry type and coordinates and the
\* properties id, name, type, origin_tool, rf_band_ghz, power_draw_w,
\* power_budget_w, environment_ref and constraints_ref; the other properties
\* are not followed.  A property the item has no field for is undefined.
pointFeature(item, type, bundle, loc) ==
  [geometry |-> "Point",
   coordinates |-> <<loc.lon, loc.lat>>,
   id |-> item.id, name |-> item.name, type |-> type,
   origin_tool |-> OrStr(OrStr(item.origin_tool, bundle.origin_tool), Some(ORIGIN_TOOL)),
   rf_band_ghz |->
     IF type = "node" THEN pickField(item, <<"rf_band_ghz", "rfBandGhz">>) ELSE None,
   power_draw_w |->
     IF type = "node" THEN pickField(item, <<"power_draw_w", "powerDrawW">>) ELSE None,
   power_budget_w |->
     IF type = "platform" THEN pickField(item, <<"power_budget_w", "powerBudgetW">>)
     ELSE None,
   environment_ref |->
     IF type = "platform" THEN pickField(item, <<"environment_ref", "environmentRef">>)
     ELSE None,
   constraints_ref |->
     IF type = "platform" THEN pickField(item, <<"constraints_ref", "constraintsRef">>)
     ELSE None]

\* pushPoint: nothing for an item without a location
pushPoint(item, type, bundle) ==
  The({
     IF loc = None THEN <<>> ELSE <<pointFeature(item, type, bundle, loc[1])>>
    : loc \in {sanitizeLocation(item.location)} })

RECURSIVE FlatSeq(_)
FlatSeq(ss) == IF ss = <<>> THEN <<>> ELSE Head(ss) \o FlatSeq(Tail(ss))

\* locIndex.get(key): the location of the last located node or platform
\* whose id is `key` (the platforms are set after the nodes), or undefined
locIndexGet(items, key) ==
  The({
     IF hits = {} THEN None
     ELSE sanitizeLocation(items[CHOOSE i \in hits : \A j \in hits : j <= i].location)
    : hits \in {{i \in 1..Len(items) :
                   items[i].id = key /\ sanitizeLocation(items[i].location) # None}} })

lineFeature(link, a, b) ==
  [geometry |-> "LineString",
   coordinates |-> << <<a.lon, a.lat>>, <<b.lon, b.lat>> >>,
   id |-> link.id, name |-> link.id, type |-> "mesh_link",
   origin_tool |-> OrStr(link.origin_tool, Some("mesh")),
   rf_band_ghz |-> link.rf_band_ghz,
   power_draw_w |-> None, power_budget_w |-> None,
   environment_ref |-> None, constraints_ref |-> None]

pushLine(link, items) ==
  The({
  The({
     IF a = None \/ b = None THEN <<>> ELSE <<lineFeature(link, a[1], b[1])>>
    : b \in {locIndexGet(items, link.to)} })
    : a \in {locIndexGet(items, link.from)} })

\* the features of the collection, in push order; the links are read from
\* bundle.mesh_links
missionProjectToGeoJson(project) ==
  The({
     FlatSeq(MapSeq(LAMBDA n : pushPoint(n, "node", bundle), ListOf(bundle.nodes)))
     \o FlatSeq(MapSeq(LAMBDA p : pushPoint(p, "platform", bundle), ListOf(bundle.platforms)))
     \o FlatSeq(MapSeq(LAMBDA l : pushLine(l, ListOf(bundle.nodes) \o ListOf(bundle.platforms)),
                       ListOf(bundle.mesh_links)))
    : bundle \in {upgradeMissionBundle(project).body} })

----------------------------------------------------------------------------
(* Export handlers *)

\* canExportCurrent: TRUE when the handler goes on to build its payload
canExportCurrent(s) ==
  IF s.savedPlatforms # <<>> THEN TRUE
  ELSE The({
       ~(Len(missingRequiredParts(stack)) > 0 \/ s.lastResult = None)
    : stack \in {IF s.lastStack # None THEN s.lastStack
            ELSE Some(buildStack(getCatalog(s), s.selection, DomMirror(s).domain[1],
                                 s.nodeLibrary, s.environment))} })

\* the handlers that begin with `if (!canExportCurrent()) return;`
GatedExports ==
  {"exportMissionProjectJson", "downloadMissionProjectPreview", "exportPlatformsOnly",
   "exportGeojsonFromState", "copyGeojsonFromState", "exportCotFromState",
   "copyCotFromState"}

\* the handlers that build and hand out their payload at once
UngatedExports == {"exportPlatformJson", "copyMissionProjectJson"}

ExportHandlers == GatedExports \cup UngatedExports

\* the payload of exportPlatformsOnly once canExportCurrent has let it pass:
\* envId = missionMeta.environment_id || 'env-local', likewise constraintId
exportPlatformsOnly(s) ==
  MapSeq(LAMBDA p : snapshotToPlatform(p,
                       OrStr(s.missionMeta.environment_id, Some("env-local"))[1],
                       OrStr(s.missionMeta.constraint_id, Some("cst-local"))[1],
                       getCatalog(s)),
         s.savedPlatforms)

\* the handler `op` hands a payload to downloadJson or to the clipboard
Emits(op, s) == op \in UngatedExports \/ canExportCurrent(s)

----------------------------------------------------------------------------
(* Start of a session: main() with nothing in localStorage *)

\* the value a freshly rendered single select shows for a default id
DomDefault(id) == IF id = None THEN Some("") ELSE id

FreshSession(cat) ==
  The({
  The({
  The({
     evaluateAndRender(s0, dom0)
    : dom0 \in {SlotRecord(LAMBDA k : DomDefault(defaults[k])) @@ [name |-> Some("")]
       @@ DomMirror(s0)} })
    : s0 \in {[catalog |-> cat, catalogWithNodes |-> cat,
             selection |-> SelectionOf(defaults, None, Some("air"), <<>>, <<>>),
             nodeLibrary |-> <<>>, savedPlatforms |-> <<>>,
             missionMeta |-> DEFAULT_MISSION_META,
             meshLinks |-> <<>>, kits |-> <<>>,
             environment |-> [altitude |-> "sea_level", temperature |-> "standard"],
             constraintPrefs |-> [minTwr |-> None, minEndurance |-> None, maxAuw |-> None],
             importedMissionProject |-> None,
             lastResult |-> None, lastStack |-> None,
             persisted |-> None, uuidCount |-> 0, evaluatorRan |-> FALSE]} })
    : defaults \in {defaultSelections(cat, "air")} })

----------------------------------------------------------------------------
(* Reset, Load and page reload *)

\* the options renderSelectionOptions gives a single select
SlotOptions(cat, slot, domain) ==
  CASE slot = "frame" -> filterByDomain(cat.frames, domain)
    [] slot = "motorEsc" -> filterByDomain(cat.motorsEsc, domain)
    [] slot = "flightController" -> filterByDomain(cat.flightControllers, domain)
    [] slot = "vtx" -> cat.vtx
    [] slot = "rcReceiver" -> cat.rcReceivers
    [] slot = "rcAntenna" -> antennasFor(cat, "rc")
    [] slot = "vtxAntenna" -> antennasFor(cat, "vtx")
    [] slot = "auxRadioAntenna" -> antennasFor(cat, "aux_radio")
    [] slot = "auxRadio" -> filterByDomain(cat.auxRadios, domain)
    [] slot = "camera" -> filterByDomain(cat.cameras, domain)
    [] slot = "battery" -> cat.batteries
    [] slot = "compute" -> cat.compute

\* a single select after setOptions: it shows selection[key] when that is
\* the value of an option, else its first option, else ''
DomShow(options, id) ==
  IF TruthyStr(id) /\ \E i \in 1..Len(options) : options[i].id = id[1] THEN id
  ELSE IF options # <<>> THEN Some(options[1].id) ELSE Some("")

\* the controls after renderSelectionOptions(domain), the name input
\* holding `name`
DomRendered(s, domain, name) ==
  SlotRecord(LAMBDA k : DomShow(SlotOptions(getCatalog(s), k, domain), s.selection[k]))
  @@ [name |-> name, domain |-> Some(domain),
      payloads |->
        MapSeq(LAMBDA p : p.id,
               FilterSeq(LAMBDA p : p.id \in SeqRange(s.selection.payloads),
                         filterByDomain(getCatalog(s).payloads, domain))),
      nodePayloads |-> DomMirror(s).nodePayloads,
      altitude |-> DomSelect(BandIds(altitudeBands), s.environment.altitude),
      temperature |-> DomSelect(BandIds(temperatureBands), s.environment.temperature),
      constraints |-> s.constraintPrefs]

\* the click handler of #resetBtn
resetSelection(s) ==
  The({
  The({
  The({
     evaluateAndRender(s1, DomRendered(s1, domain[1], DomMirror(s).name))
    : s1 \in {[s EXCEPT
          !.selection = SelectionOf(defaults, None, domain, defaults.payloads, <<>>),
          !.environment = [altitude |-> "sea_level", temperature |-> "standard"]]} })
    : defaults \in {defaultSelections(getCatalog(s), domain[1])} })
    : domain \in {DomMirror(s).domain} })

\* { ...defaults, ...entry.selection }
SpreadSelection(defaults, sel) ==
  SlotRecord(LAMBDA k : IF sel[k] = None THEN defaults[k] ELSE sel[k]) @@ sel

loadSnapshot(s, entry) ==
  The({
  The({
     evaluateAndRender(
       s1,
       DomRendered(s1, OrStr(s1.selection.domain, DomMirror(s).domain)[1],
                   OrStr(s1.selection.name, DomMirror(s).name)))
    : s1 \in {[s EXCEPT
          !.selection = SpreadSelection(defaults, entry.selection),
          !.environment =
             [altitude |-> OrStr(Some(entry.environment.altitude), Some("sea_level"))[1],
              temperature |->
                OrStr(Some(entry.environment.temperature), Some("standard"))[1]],
          !.constraintPrefs = entry.constraints]} })
    : defaults \in {defaultSelections(getCatalog(s), OrStr(entry.selection.domain, Some("air"))[1])} })

\* the node and the part ids of the demo platform
demoNode ==
  [id |-> Some("node_recon_mesh"), name |-> Some("Recon mesh payload"),
   weight_grams |-> 180, power_draw_typical_w |-> 9,
   role_tags |-> RoleList(<<"recon", "sensor_node">>),
   origin_tool |-> Some("node"),
   notes |-> Some("Node Architect payload used for demo wiring"),
   location |-> None, rf_band_ghz |-> Some(24)]
demoParts ==
  [frame |-> "frame_5in_fpv_trainer_01", motorEsc |-> "motor_2207_freestyle",
   flightController |-> "fc_long_range_nav", vtx |-> "vtx_digital_hd",
   rcReceiver |-> "rc_elrs_24_nano", rcAntenna |-> "ant_omni_24_micro",
   vtxAntenna |-> "ant_patch_58", auxRadio |-> "aux_data_link",
   auxRadioAntenna |-> "ant_panel_mesh", battery |-> "bat_4s_5000_lr",
   compute |-> "comp_jetson_nano_lite", camera |-> "cam_fpv_hd_nano"]

\* pick(id, arr) || fallback
pickOr(id, arr, fallback) ==
  IF findById(arr, Some(id)) # None THEN Some(id) ELSE fallback

\* the click handler of #loadDemo.  workingCatalog is read before the demo
\* node joins the library; renderNodeLibrary may throw and end the handler.
loadDemoPlatform(s) ==
  The({
  The({
  The({
     IF renderNodeLibraryThrows(s1) THEN s1
     ELSE
     The({
        savePlatformSnapshot(
          evaluateAndRender(s2, DomRendered(s2, "air", Some("Recon Quad Platform"))))
       : s2 \in {[s1 EXCEPT !.selection =
            SlotRecord(LAMBDA k : pickOr(demoParts[k], workingCatalog[SlotCategory(k)],
                                         defaults[k]))
            @@ [name |-> Some("Recon Quad Platform"), domain |-> Some("air"),
                payloads |->
                  IF findById(workingCatalog.payloads, Some("payload_eo_turret_light")) # None
                  THEN <<"payload_eo_turret_light">>
                  ELSE IF defaults.payloads = <<>> THEN <<>>
                  ELSE <<defaults.payloads[1]>>,
                nodePayloads |-> <<demoNode.id[1]>>]]} })
    : s1 \in {refreshCatalogWithNodes(
         [s EXCEPT !.nodeLibrary =
            IF \E i \in 1..Len(s.nodeLibrary) : s.nodeLibrary[i].id = demoNode.id
            THEN s.nodeLibrary ELSE <<demoNode>> \o s.nodeLibrary])} })
    : defaults \in {defaultSelections(workingCatalog, "air")} })
    : workingCatalog \in {getCatalog(s)} })

\* ensureSelection, the domain select showing "air" on a fresh page
ensureSelection(s) ==
  The({
  The({
     [s EXCEPT
        !.selection =
           IF TruthyStr(s.selection.frame)
           THEN [s.selection EXCEPT !.domain = domain]
           ELSE SlotRecord(LAMBDA k : defaults[k])
                @@ [name |-> s.selection.name, domain |-> domain,
                    payloads |-> defaults.payloads,
                    nodePayloads |-> s.selection.nodePayloads]]
    : defaults \in {defaultSelections(getCatalog(s), domain[1])} })
    : domain \in {OrStr(s.selection.domain, Some("air"))} })

\* main() on a page whose localStorage holds s.persisted and whose catalog
\* file is the one loaded before: loadPersistedState, refreshCatalogWithNodes,
\* populateStaticControls, ensureSelection, renderSelectionOptions,
\* renderNodeLibrary, evaluateAndRender.  JSON.stringify then JSON.parse
\* turns an undefined property into an absent one and keeps every string,
\* finite number, list and null of the blob: the reader below treats
\* undefined, absent and null alike (None).
reloadPage(s) ==
  IF s.persisted = None THEN FreshSession(s.catalog)
  ELSE
  The({
  The({
     IF renderNodeLibraryThrows(s1) THEN s1
     ELSE evaluateAndRender(s1, DomRendered(s1, s1.selection.domain[1], Some("")))
    : s1 \in {ensureSelection(refreshCatalogWithNodes(
         [s EXCEPT
            !.selection = state.selection, !.nodeLibrary = state.nodeLibrary,
            !.savedPlatforms = state.savedPlatforms, !.missionMeta = state.missionMeta,
            !.meshLinks = state.meshLinks, !.kits = state.kits,
            !.environment = state.environment, !.constraintPrefs = state.constraints,
            !.importedMissionProject = None,
            !.lastResult = None, !.lastStack = None, !.evaluatorRan = FALSE]))} })
    : state \in {s.persisted[1]} })

\* main() rejects: renderNodeLibrary throws on the restored node library
reloadPageThrows(s) ==
  s.persisted # None /\ renderNodeLibraryThrows([s EXCEPT !.nodeLibrary = s.persisted[1].nodeLibrary])

----------------------------------------------------------------------------
(* Inputs: MissionProject documents and Node Architect designs *)

Point1 == Some([lat |-> Some(396121), lon |-> Some(-1059449)])

EnvCanon ==
  [BlankEnv EXCEPT !.id = Some("env-1"), !.origin_tool = Some("hub"),
                   !.altitudeBand = Some("mountain"),
                   !.temperatureBand = Some("freezing"), !.notes = Some("Thin air")]
EnvLegacy ==
  [BlankEnv EXCEPT !.id = Some("env-1"), !.altitude_band = Some("mountain"),
                   !.temperature_band = Some("freezing")]
EnvSecond ==
  [BlankEnv EXCEPT !.id = Some("env-2"), !.altitudeBand = Some("high_desert"),
                   !.temperatureBand = Some("hot"), !.notes = Some("Dust")]

CstCanon ==
  [BlankConstraint EXCEPT !.id = Some("cst-1"), !.origin_tool = Some("hub"),
                          !.minThrustToWeight = Some(13),
                          !.minAdjustedEnduranceMin = Some(18),
                          !.maxAuwKg = Some(6 * KgScale), !.notes = Some("Range safety")]
CstLegacy ==
  [BlankConstraint EXCEPT !.id = Some("cst-1"), !.min_thrust_to_weight = Some(13),
                          !.max_auw_kg = Some(6 * KgScale)]
CstSecond ==
  [BlankConstraint EXCEPT !.id = Some("cst-2"), !.minThrustToWeight = Some(15)]

NodeCanon ==
  [BlankNode EXCEPT !.id = Some("node-1"), !.name = Some("Ridge relay"),
                    !.role = Some(RoleList(<<"mesh_relay">>)),
                    !.origin_tool = Some("node_architect"),
                    !.powerDrawW = Some(45), !.weightGrams = Some(620),
                    !.rfBandGhz = Some(24), !.location = Point1]
NodeLegacy ==
  [BlankNode EXCEPT !.id = Some("node-2"), !.name = Some("Valley sensor"),
                    !.role_tags = Some(RoleList(<<"sensor_node">>)),
                    !.power_draw_w = Some(30), !.weight_grams = Some(410),
                    !.rf_band_ghz = Some(9), !.notes = Some("Field unit")]
NodeBare == [BlankNode EXCEPT !.id = Some("node-3")]
NodeBadRole ==
  [BlankNode EXCEPT !.id = Some("node-4"), !.name = Some("Broken"),
                    !.role = Some(NotAList)]

PlatCanon ==
  [BlankPlatform EXCEPT
     !.id = Some("plt-1"), !.name = Some("Recon Quad"), !.origin_tool = Some("uxs"),
     !.domain = Some("air"), !.frameType = Some("quad"),
     !.mountedNodeIds = Some(<<"node-1">>), !.payloadIds = Some(<<"payload_eo">>),
     !.powerBudgetW = Some(185 * WattScale), !.batteryWh = Some(260000),
     !.auwKg = Some(49000), !.missionRoles = Some(<<"recon">>),
     !.environmentRef = Some("env-1"), !.constraintsRef = Some("cst-1"),
     !.location = Point1, !.notes = Some("Keep the spare props")]
PlatLegacy ==
  [BlankPlatform EXCEPT
     !.id = Some("plt-2"), !.name = Some("Legacy Quad"), !.origin_tool = Some("hub"),
     !.frame_type = Some("quad"), !.mounted_node_ids = Some(<<"node-2">>),
     !.power_budget_w = Some(120 * WattScale), !.battery_wh = Some(74000),
     !.auw_kg = Some(49000), !.mission_roles = Some(<<"relay">>),
     !.environment_ref = Some("env-1")]
\* 4.9001 kg: finer than a gram
PlatLegacyFine == [PlatLegacy EXCEPT !.id = Some("plt-3"), !.auw_kg = Some(49001)]
PlatBare == [BlankPlatform EXCEPT !.id = Some("plt-4")]
PlatNoId == [BlankPlatform EXCEPT !.name = Some("Anonymous"), !.auwKg = Some(12000)]

LinkCanon ==
  [BlankLink EXCEPT !.id = Some("link-1"), !.origin_tool = Some("mesh"),
                    !.from = Some("node-1"), !.to = Some("plt-1"),
                    !.rfBandGhz = Some(24), !.notes = Some("LoS ridge hop")]
LinkLegacy ==
  [BlankLink EXCEPT !.id = Some("link-2"), !.from = Some("node-2"), !.to = Some("plt-2"),
                    !.rf_band_ghz = Some(9)]

KitCanon ==
  [BlankKit EXCEPT !.id = Some("kit-1"), !.name = Some("Resupply kit"),
                   !.origin_tool = Some("kit"),
                   !.supportedPlatformIds = Some(<<"plt-1">>)]
KitLegacy ==
  [BlankKit EXCEPT !.id = Some("kit-2"), !.supported_platform_ids = Some(<<"plt-2">>),
                   !.notes = Some("Low-temp cells")]

MissionPlain ==
  [BlankMission EXCEPT !.id = Some("mission-whitefrost"), !.name = Some("WHITEFROST"),
                       !.origin_tool = Some("mission"), !.objective = Some("Recon")]
\* a mission that records which environment / constraint entry is the session's
MissionSecond ==
  [MissionPlain EXCEPT !.environment_id = Some("env-2"), !.constraint_id = Some("cst-2")]
MissionNew ==
  [MissionPlain EXCEPT !.environment_id = Some("env-9"), !.constraint_id = Some("cst-9")]

BodyCanon ==
  [BlankBody EXCEPT
     !.version = Some("2.0.0"), !.schemaVersion = Some("2.0.0"), !.origin_tool = Some("hub"),
     !.mission = Some(MissionPlain),
     !.environment = Some(<<EnvCanon, EnvSecond>>),
     !.constraints = Some(<<CstCanon, CstSecond>>),
     !.nodes = Some(<<NodeCanon>>),
     !.platforms = Some(<<PlatCanon>>),
     !.meshLinks = Some(<<LinkCanon>>),
     !.kits = Some(<<KitCanon>>),
     !.extra = Some("x-hub-revision")]
BodyLegacy ==
  [BlankBody EXCEPT
     !.version = Some("1.0"),
     !.environment = Some(<<EnvLegacy>>),
     !.constraints = Some(<<CstLegacy>>),
     !.nodes = Some(<<NodeLegacy, NodeBare>>),
     !.platforms = Some(<<PlatLegacy, PlatBare>>),
     !.mesh_links = Some(<<LinkLegacy>>),
     !.kits = Some(<<KitLegacy>>)]

\* the documents the session's import is tried on
ImportBodies ==
  { BodyCanon, BodyLegacy,
    [BodyCanon EXCEPT !.mission = Some(MissionSecond)],
    [BodyCanon EXCEPT !.mission = Some(MissionNew),
                      !.platforms = Some(<<PlatLegacyFine, PlatNoId>>)],
    [BodyLegacy EXCEPT !.nodes = Some(<<NodeBadRole>>)] }

ImportFiles ==
  {JsonObject(FALSE, None, b) : b \in ImportBodies}
  \cup {JsonObject(TRUE, Some("x-envelope"), BodyCanon)}
  \cup {JsonNull, JsonNumber, Unparseable}

DesignRelay ==
  [BlankNode EXCEPT !.id = Some("node-1"), !.name = Some("Relay rev B"),
                    !.weight_grams = Some(700), !.power_w = Some(50),
                    !.role_tags = Some(RoleList(<<"mesh_relay">>))]
DesignCamera ==
  [BlankNode EXCEPT !.id = Some("node-7"), !.name = Some("Mast camera"),
                    !.weight_grams = Some(180), !.power_draw_w = Some(9)]
DesignNameless == BlankNode

NodeFiles == { <<DesignCamera, DesignRelay>>, <<DesignNameless>> }

\* Catalogs the page may have loaded: the full one, and the full one with one
\* required category empty
CatalogWithout(key) == [FullCatalog EXCEPT ![key] = <<>>]
Catalogs ==
  {FullCatalog} \cup {CatalogWithout(CatalogKey(REQUIRED_PARTS[i].key)) : i \in 1..Len(REQUIRED_PARTS)}

----------------------------------------------------------------------------
(* State *)

VARIABLES
  catalog,                 \* the loaded catalog
  catalogWithNodes,        \* the catalog with the node components appended
  selection, nodeLibrary, savedPlatforms, missionMeta, meshLinks, kits,
  environment, constraintPrefs, importedMissionProject, lastResult, lastStack,
  persisted,               \* localStorage[STORAGE_KEY]
  uuidCount,               \* ids crypto.randomUUID() has handed out
  evaluatorRan,            \* the last evaluateAndRender called evaluateStack
  lastImport,              \* the handleMissionImport that just ended, if any
  importedRaw,             \* the document importedMissionProject was built from
  lastExport,              \* the export handler that just ended, if any
  lastReload,              \* what the reload that just ended began from
  completed,               \* the last handler returned without an exception
  ops, imports,            \* operations so far
  normStage, normIn, normOnce, normTwice,  \* the normalizer on its own
  evalStage, evalIn, evalStack, evalResult, \* the assembler and evaluator on their own
  geoStage, geoIn, geoOut  \* the GeoJSON projection on its own

sessionVars ==
  <<catalog, catalogWithNodes, selection, nodeLibrary, savedPlatforms, missionMeta,
    meshLinks, kits, environment, constraintPrefs, importedMissionProject,
    lastResult, lastStack, persisted, uuidCount, evaluatorRan>>
ghostVars == <<lastImport, importedRaw, lastExport, lastReload, completed, ops, imports>>
normVars == <<normStage, normIn, normOnce, normTwice>>
evalVars == <<evalStage, evalIn, evalStack, evalResult>>
geoVars == <<geoStage, geoIn, geoOut>>
vars == <<sessionVars, ghostVars, normVars, evalVars, geoVars>>

\* the session the variables hold
Session ==
  [catalog |-> catalog, catalogWithNodes |-> catalogWithNodes, selection |-> selection,
   nodeLibrary |-> nodeLibrary, savedPlatforms |-> savedPlatforms,
   missionMeta |-> missionMeta, meshLinks |-> meshLinks, kits |-> kits,
   environment |-> environment, constraintPrefs |-> constraintPrefs,
   importedMissionProject |-> importedMissionProject,
   lastResult |-> lastResult, lastStack |-> lastStack,
   persisted |-> persisted, uuidCount |-> uuidCount, evaluatorRan |-> evaluatorRan]

\* the variables take the session s
Becomes(s) ==
  /\ catalog' = s.catalog /\ catalogWithNodes' = s.catalogWithNodes
  /\ selection' = s.selection /\ nodeLibrary' = s.nodeLibrary
  /\ savedPlatforms' = s.savedPlatforms /\ missionMeta' = s.missionMeta
  /\ meshLinks' = s.meshLinks /\ kits' = s.kits
  /\ environment' = s.environment /\ constraintPrefs' = s.constraintPrefs
  /\ importedMissionProject' = s.importedMissionProject
  /\ lastResult' = s.lastResult /\ lastStack' = s.lastStack
  /\ persisted' = s.persisted /\ uuidCount' = s.uuidCount
  /\ evaluatorRan' = s.evaluatorRan

NoImport == [outcome |-> "none", file |-> JsonNull, before |-> None]
NoExport == [op |-> "none", emitted |-> FALSE]

\* bounds of the exploration
MaxOps == 3
MaxImports == 1

EvalIdle == evalStage = "idle" /\ evalIn = None /\ evalStack = None /\ evalResult = None
GeoIdle == geoStage = "idle" /\ geoIn = JsonNull /\ geoOut = <<>>

NormIdle ==
  /\ normStage = "idle" /\ normIn = JsonNull /\ normOnce = JsonNull /\ normTwice = JsonNull
  /\ EvalIdle /\ GeoIdle

SessionInit(cats) ==
  /\ \E cat \in cats :
       \E s \in {FreshSession(cat)} :
       /\ catalog = s.catalog /\ catalogWithNodes = s.catalogWithNodes
       /\ selection = s.selection /\ nodeLibrary = s.nodeLibrary
       /\ savedPlatforms = s.savedPlatforms /\ missionMeta = s.missionMeta
       /\ meshLinks = s.meshLinks /\ kits = s.kits
       /\ environment = s.environment /\ constraintPrefs = s.constraintPrefs
       /\ importedMissionProject = s.importedMissionProject
       /\ lastResult = s.lastResult /\ lastStack = s.lastStack
       /\ persisted = s.persisted /\ uuidCount = s.uuidCount
       /\ evaluatorRan = s.evaluatorRan
  /\ lastImport = NoImport /\ importedRaw = None /\ lastExport = NoExport
  /\ lastReload = None /\ completed = TRUE
  /\ ops = 0 /\ imports = 0

Init == SessionInit({FullCatalog}) /\ NormIdle

----------------------------------------------------------------------------
(* Operations of the session *)

\* every way to keep some of the entries of s, in order
SubSeqs(s) ==
  {FilterSeq(LAMBDA x : x \in keep, s) : keep \in SUBSET SeqRange(s)}

OptionIds(items) == {Some(items[i].id) : i \in 1..Len(items)}

\* the values a user can give one control; the other controls keep what
\* they show
ControlValues(control) ==
  CASE control = "frame" -> OptionIds(filterByDomain(catalog.frames, selection.domain[1]))
    [] control = "battery" -> OptionIds(catalog.batteries)
    [] control = "payloads" ->
         SubSeqs(MapSeq(LAMBDA p : p.id, filterByDomain(catalog.payloads, selection.domain[1])))
    [] control = "nodePayloads" ->
         {<<>>} \cup {<<n>> : n \in SeqRange(MapSeq(LAMBDA n : n.id[1],
                                      FilterSeq(LAMBDA n : n.id # None, nodeLibrary)))}
    [] control = "altitude" -> {"high_desert"}
    [] control = "temperature" -> {"cold"}
    [] control = "name" -> {Some("Recon Quad")}

Controls == {"frame", "battery", "payloads", "nodePayloads", "altitude", "temperature", "name"}

\* readConstraintsFromDom: what parseFloat and Number.isFinite make of the
\* three inputs; one input edited at a time
ConstraintEdits ==
  {[constraintPrefs EXCEPT !.minTwr = Some(15)],
   [constraintPrefs EXCEPT !.maxAuw = None],
   [constraintPrefs EXCEPT !.maxAuw = Some(3 * KgScale)]}

Tick ==
  /\ ops < MaxOps /\ ops' = ops + 1
  /\ lastExport' = NoExport
  /\ UNCHANGED <<normVars, evalVars, geoVars>>

Step == Tick /\ lastReload' = None

\* a change event on one control: evaluateAndRender
UserChange ==
  /\ Step
  /\ \E control \in Controls : \E v \in ControlValues(control) :
       Becomes(evaluateAndRender(Session, [DomMirror(Session) EXCEPT ![control] = v]))
  /\ lastImport' = NoImport /\ completed' = TRUE
  /\ UNCHANGED <<importedRaw, imports>>

UserConstraint ==
  /\ Step
  /\ \E c \in ConstraintEdits :
       Becomes(evaluateAndRender(Session, [DomMirror(Session) EXCEPT !.constraints = c]))
  /\ lastImport' = NoImport /\ completed' = TRUE
  /\ UNCHANGED <<importedRaw, imports>>

SavePlatform ==
  /\ Step
  /\ uuidCount < Len(Uuids)
  /\ Becomes(savePlatformSnapshot(Session))
  /\ lastImport' = NoImport /\ completed' = TRUE
  /\ UNCHANGED <<importedRaw, imports>>

NodeImport ==
  /\ Step
  /\ \E designs \in NodeFiles :
       /\ Becomes(handleNodeImport(Session, designs))
       /\ completed' = ~handleNodeImportThrows(Session, designs)
  /\ lastImport' = NoImport
  /\ UNCHANGED <<importedRaw, imports>>

MissionImport ==
  /\ Step
  /\ imports < MaxImports
  /\ imports' = imports + 1
  /\ \E file \in ImportFiles :
       \E r \in {handleMissionImport(Session, file)} :
       /\ Becomes(r.s)
       /\ lastImport' = [outcome |-> r.outcome, file |-> file, before |-> Some(Session)]
       /\ completed' = (r.outcome = "ok")
       /\ importedRaw' = IF r.s.importedMissionProject # importedMissionProject
                            \/ r.outcome = "ok"
                         THEN Some(file) ELSE importedRaw

\* a click on the Load demo button
LoadDemo ==
  /\ Step
  /\ uuidCount < Len(Uuids)
  /\ Becomes(loadDemoPlatform(Session))
  /\ lastImport' = NoImport
  /\ completed' = ~renderNodeLibraryThrows(Session)
  /\ UNCHANGED <<importedRaw, imports>>

\* a click on one of the export controls
Export ==
  /\ \E op \in ExportHandlers :
       lastExport' = [op |-> op, emitted |-> Emits(op, Session)]
  /\ UNCHANGED <<sessionVars, lastImport, importedRaw, lastReload, completed, ops, imports,
                 normVars, evalVars, geoVars>>

Next ==
  UserChange \/ UserConstraint \/ SavePlatform \/ NodeImport \/ MissionImport \/ LoadDemo

Spec == Init /\ [][Next]_vars

\* a click on Reset
Reset ==
  /\ Step
  /\ Becomes(resetSelection(Session))
  /\ lastImport' = NoImport /\ completed' = TRUE
  /\ UNCHANGED <<importedRaw, imports>>

\* a click on the Load button of one saved platform
LoadSnapshot ==
  /\ Step
  /\ \E i \in 1..Len(savedPlatforms) : Becomes(loadSnapshot(Session, savedPlatforms[i]))
  /\ lastImport' = NoImport /\ completed' = TRUE
  /\ UNCHANGED <<importedRaw, imports>>

\* the page is loaded again
Reload ==
  /\ Tick
  /\ Becomes(reloadPage(Session))
  /\ lastReload' = Some([session |-> Session, completed |-> completed])
  /\ completed' = ~reloadPageThrows(Session)
  /\ lastImport' = NoImport
  /\ importedRaw' = None
  /\ UNCHANGED imports

\* The session with Reset, Load and reloads of the page
NextReload == Next \/ Reset \/ LoadSnapshot \/ Reload
SpecReload == Init /\ [][NextReload]_vars

\* Bundles whose entities carry the canonical and a legacy name of one field
\* with different values
PlatMixed ==
  [BlankPlatform EXCEPT
     !.id = Some("plt-5"), !.name = Some("Mixed Quad"), !.domain = Some("air"),
     !.frameType = Some("quad"), !.frame_type = Some("hex"),
     !.auwKg = Some(49000), !.auw_kg = Some(52000)]
NodeMixed ==
  [BlankNode EXCEPT
     !.id = Some("node-5"), !.name = Some("Mixed relay"),
     !.role = Some(RoleList(<<"mesh_relay">>)),
     !.weightGrams = Some(620), !.weight_grams = Some(700),
     !.powerDrawW = Some(45), !.power_draw_w = Some(50), !.power_w = Some(60)]
MixedFiles ==
  {JsonObject(wrapped, None,
              [BodyCanon EXCEPT !.nodes = Some(nodes), !.platforms = Some(platforms)]) :
     wrapped \in {FALSE, TRUE},
     nodes \in {<<NodeMixed>>, <<NodeCanon, NodeMixed>>},
     platforms \in {<<PlatMixed>>, <<PlatMixed, PlatCanon>>}}

\* a MissionProject file with such entities is chosen in the import control
MixedImport ==
  /\ Step
  /\ imports < MaxImports
  /\ imports' = imports + 1
  /\ \E file \in MixedFiles :
       \E r \in {handleMissionImport(Session, file)} :
       /\ Becomes(r.s)
       /\ lastImport' = [outcome |-> r.outcome, file |-> file, before |-> Some(Session)]
       /\ completed' = (r.outcome = "ok")
       /\ importedRaw' = IF r.s.importedMissionProject # importedMissionProject
                            \/ r.outcome = "ok"
                         THEN Some(file) ELSE importedRaw

\* The session with imports of such files
NextMixed == UserChange \/ UserConstraint \/ MixedImport
SpecMixed == Init /\ [][NextMixed]_vars

\* The page over any of the catalogs, driven by its controls and Save
InitGate == SessionInit(Catalogs) /\ NormIdle
NextGate == UserChange \/ UserConstraint \/ SavePlatform \/ Export
SpecGate == InitGate /\ [][NextGate]_vars

----------------------------------------------------------------------------
(* The normalizer on its own: upgradeMissionBundle applied to a document,  *)
(* then to its own output                                                  *)

NormBodies ==
  {[BlankBody EXCEPT
      !.version = v, !.environment = e, !.constraints = e2, !.nodes = n, !.platforms = p,
      !.meshLinks = ml, !.mesh_links = ll, !.kits = k, !.extra = x] :
     v \in {None, Some("1.0")},
     e \in {None, Some(<<EnvLegacy>>)},
     e2 \in {None, Some(<<CstLegacy, CstSecond>>)},
     n \in {None, Some(<<NodeCanon>>), Some(<<NodeLegacy, NodeBare>>)},
     p \in {None, Some(<<PlatCanon>>), Some(<<PlatLegacy, PlatBare>>)},
     ml \in {None, Some(<<LinkCanon>>)},
     ll \in {None, Some(<<LinkLegacy>>)},
     k \in {None, Some(<<KitLegacy>>)},
     x \in {None, Some("x-hub-revision")}}

NormInputs ==
  {JsonObject(FALSE, None, b) : b \in NormBodies}
  \cup {JsonObject(TRUE, sib, b) : sib \in {None, Some("x-envelope")}, b \in NormBodies}
  \cup {JsonNull, JsonNumber}

InitNorm ==
  /\ SessionInit({FullCatalog})
  /\ normStage = "input" /\ normIn \in NormInputs
  /\ normOnce = JsonNull /\ normTwice = JsonNull
  /\ EvalIdle /\ GeoIdle

NormalizeOnce ==
  /\ normStage = "input"
  /\ normOnce' = upgradeMissionBundle(normIn)
  /\ normStage' = "once"
  /\ UNCHANGED <<sessionVars, ghostVars, normIn, normTwice, evalVars, geoVars>>

NormalizeTwice ==
  /\ normStage = "once"
  /\ normTwice' = upgradeMissionBundle(normOnce)
  /\ normStage' = "twice"
  /\ UNCHANGED <<sessionVars, ghostVars, normIn, normOnce, evalVars, geoVars>>

NextNorm == NormalizeOnce \/ NormalizeTwice

SpecNorm == InitNorm /\ [][NextNorm]_vars

----------------------------------------------------------------------------
(* The Stack Assembler and the Evaluator on their own: buildStack, then    *)
(* evaluateStack, for catalogs, selections, bands and constraints drawn     *)
(* from the sets below.                                                     *)

\* FullCatalog with parts that bring out every branch of the evaluator: a
\* weak and a massless propulsion set, a massless battery, a radio whose
\* antenna is on another band, a heavy payload
EvalCatalog ==
  [FullCatalog EXCEPT
     !.motorsEsc = @ \o
        << [Part("motor_1404", "air", 60, <<>>) EXCEPT
              !.max_thrust_per_motor_g = 150, !.motor_count = 4,
              !.max_current_per_motor_a = 8, !.voltage_range_s_cells = <<2, 3>>,
              !.compatible_frame_form_factors = <<"3in_quad">>],
           [Part("motor_bench", "any", 0, <<>>) EXCEPT
              !.max_thrust_per_motor_g = 500, !.motor_count = 2,
              !.max_current_per_motor_a = 10, !.voltage_range_s_cells = <<4>>] >>,
     !.batteries = @ \o
        << [Part("bat_bench", "any", 0, <<>>) EXCEPT
              !.capacity_mah = 2000, !.voltage_nominal = 16000, !.s_cells = 4] >>,
     !.auxRadios =
        << [Part("radio_mesh", "any", 40, <<>>) EXCEPT
              !.rf_band_ghz = Some(24), !.duty_cycle_profile = "continuous"] >>,
     !.antennas = @ \o
        << [Part("ant_aux_9", "any", 6, <<>>) EXCEPT
              !.rf_band_ghz = Some(9), !.application = "aux_radio"] >>,
     !.payloads = @ \o
        << [Part("payload_lidar", "any", 600, <<"mapping">>) EXCEPT
              !.power_draw_typical_w = 12] >>]

EmptyCatalog == [k \in DOMAIN FullCatalog |-> <<>>]

EvalCatalogs == {EvalCatalog, EmptyCatalog}

EvalNodeLibrary == parseNodeDesigns(<<DesignRelay, DesignCamera>>)

\* the avionics slots, all left empty or all filled
EvalAvionics ==
  { [flightController |-> None, vtx |-> None, rcReceiver |-> None, rcAntenna |-> None,
     vtxAntenna |-> None, auxRadio |-> None, auxRadioAntenna |-> None,
     camera |-> None, compute |-> None],
    [flightController |-> Some("fc_f7"), vtx |-> Some("vtx_58"),
     rcReceiver |-> Some("rc_elrs"), rcAntenna |-> Some("ant_rc_24"),
     vtxAntenna |-> Some("ant_vtx_58"), auxRadio |-> Some("radio_mesh"),
     auxRadioAntenna |-> Some("ant_aux_9"), camera |-> Some("cam_fpv"),
     compute |-> Some("comp_pi")] }

\* selections, with ids that are in no list and ids of the other library
EvalSelections ==
  { avionics
    @@ [name |-> None, domain |-> None, frame |-> frame, motorEsc |-> motorEsc,
        battery |-> battery, payloads |-> payloads, nodePayloads |-> nodePayloads] :
      avionics \in EvalAvionics,
      frame \in {None, Some("frame_5in"), Some("frame_7in"), Some("frame_x")},
      motorEsc \in {None, Some("motor_2207"), Some("motor_1404"), Some("motor_bench")},
      battery \in {None, Some("bat_4s_1500"), Some("bat_bench")},
      payloads \in { <<>>, <<"payload_lidar", "payload_eo">>,
                     <<"payload_x", "payload_eo">>, <<"node-1">> },
      nodePayloads \in { <<>>, <<"node-1">>, <<"payload_eo", "node-7", "node-x">> } }

EvalEnvironments ==
  { [altitude |-> "sea_level", temperature |-> "standard"],
    [altitude |-> "mountain", temperature |-> "freezing"],
    [altitude |-> "orbit", temperature |-> ""] }

EvalConstraints ==
  { [minTwr |-> None, minEndurance |-> None, maxAuw |-> None],
    [minTwr |-> Some(20), minEndurance |-> Some(30), maxAuw |-> Some(KgScale \div 2)],
    [minTwr |-> Some(0), minEndurance |-> Some(0), maxAuw |-> Some(0)] }

InitEval ==
  /\ SessionInit({FullCatalog})
  /\ normStage = "idle" /\ normIn = JsonNull /\ normOnce = JsonNull /\ normTwice = JsonNull
  /\ evalStage = "input"
  /\ evalIn \in [cat : EvalCatalogs, sel : EvalSelections, domain : {"air", "ground"},
                  env : EvalEnvironments, constraints : EvalConstraints]
  /\ evalStack = None /\ evalResult = None
  /\ GeoIdle

Assemble ==
  /\ evalStage = "input"
  /\ evalStack' = Some(buildStack(evalIn.cat, evalIn.sel, evalIn.domain,
                                  EvalNodeLibrary, evalIn.env))
  /\ evalStage' = "stack"
  /\ UNCHANGED <<sessionVars, ghostVars, normVars, evalIn, evalResult, geoVars>>

Evaluate ==
  /\ evalStage = "stack"
  /\ evalResult' = Some(evaluateStack(evalStack[1], evalIn.env, evalIn.constraints))
  /\ evalStage' = "result"
  /\ UNCHANGED <<sessionVars, ghostVars, normVars, evalIn, evalStack, geoVars>>

NextEval == Assemble \/ Evaluate

SpecEval == InitEval /\ [][NextEval]_vars

----------------------------------------------------------------------------
(* The GeoJSON projection on its own: missionProjectToGeoJson applied to a   *)
(* document                                                                  *)

\* nodes and platforms with and without coordinates, and links between them
\* under either key
LinkLocated ==
  [BlankLink EXCEPT !.id = Some("link-3"), !.from = Some("node-1"), !.to = Some("plt-1"),
                    !.rf_band_ghz = Some(24)]
LinkDangling ==
  [BlankLink EXCEPT !.id = Some("link-4"), !.from = Some("node-1"), !.to = Some("plt-9")]
GeoBodies ==
  {[BlankBody EXCEPT
      !.origin_tool = o, !.nodes = n, !.platforms = p, !.meshLinks = ml, !.mesh_links = ll] :
     o \in {None, Some("hub")},
     n \in {None, Some(<<NodeCanon>>), Some(<<NodeLegacy, NodeCanon>>)},
     p \in {None, Some(<<PlatCanon>>), Some(<<PlatLegacy, PlatBare>>)},
     ml \in {None, Some(<<LinkCanon>>), Some(<<LinkCanon, LinkLegacy>>)},
     ll \in {None, Some(<<LinkLocated>>), Some(<<LinkLegacy, LinkLocated, LinkDangling>>)}}

GeoInputs ==
  {JsonObject(w, None, b) : w \in {FALSE, TRUE}, b \in GeoBodies} \cup {JsonNull}

InitGeo ==
  /\ SessionInit({FullCatalog})
  /\ normStage = "idle" /\ normIn = JsonNull /\ normOnce = JsonNull /\ normTwice = JsonNull
  /\ EvalIdle
  /\ geoStage = "input" /\ geoIn \in GeoInputs /\ geoOut = <<>>

Project ==
  /\ geoStage = "input"
  /\ geoOut' = missionProjectToGeoJson(geoIn)
  /\ geoStage' = "projected"
  /\ UNCHANGED <<sessionVars, ghostVars, normVars, evalVars, geoIn>>

NextGeo == Project

SpecGeo == InitGeo /\ [][NextGeo]_vars

----------------------------------------------------------------------------
(* Properties of the normalizer *)

\* the alias tables: canonical field -> its names in priority order
EnvAliases ==
  [altitudeBand |-> <<"altitudeBand", "altitude_band">>,
   temperatureBand |-> <<"temperatureBand", "temperature_band">>]
ConstraintAliases ==
  [minThrustToWeight |-> <<"minThrustToWeight", "min_thrust_to_weight">>,
   minAdjustedEnduranceMin |-> <<"minAdjustedEnduranceMin", "min_adjusted_endurance_min">>,
   maxAuwKg |-> <<"maxAuwKg", "max_auw_kg">>]
NodeAliases ==
  [weightGrams |-> <<"weightGrams", "weight_grams">>,
   powerDrawW |-> <<"powerDrawW", "power_draw_w", "power_w">>,
   rfBandGhz |-> <<"rfBandGhz", "rf_band_ghz">>,
   role |-> <<"role", "role_tags">>]
PlatformAliases ==
  [frameType |-> <<"frameType", "frame_type", "frame">>,
   mountedNodeIds |-> <<"mountedNodeIds", "mounted_node_ids">>,
   payloadIds |-> <<"payloadIds", "payload_ids">>,
   powerBudgetW |-> <<"powerBudgetW", "power_budget_w">>,
   batteryWh |-> <<"batteryWh", "battery_wh">>,
   auwKg |-> <<"auwKg", "auw_kg">>,
   missionRoles |-> <<"missionRoles", "mission_roles">>,
   environmentRef |-> <<"environmentRef", "environment_ref">>,
   constraintsRef |-> <<"constraintsRef", "constraints_ref">>]
LinkAliases == [rfBandGhz |-> <<"rfBandGhz", "rf_band_ghz">>]
KitAliases ==
  [supportedPlatformIds |-> <<"supportedPlatformIds", "supported_platform_ids">>]

RECURSIVE FirstDefinedAlias(_, _)
FirstDefinedAlias(entry, names) ==
  IF names = <<>> THEN None
  ELSE IF entry[Head(names)] # None THEN entry[Head(names)]
  ELSE FirstDefinedAlias(entry, Tail(names))

\* every canonical field of every entry of `out` is the first defined alias
\* of the entry of `inp` it was made from
AliasesResolved(inp, out, aliases) ==
  /\ Len(out) = Len(inp)
  /\ \A i \in 1..Len(inp) : \A f \in DOMAIN aliases :
       out[i][f] = FirstDefinedAlias(inp[i], aliases[f])

\* the names of an entity that no alias table lists
Unrecognized(blank, aliases) ==
  DOMAIN blank \ UNION {SeqRange(aliases[f]) : f \in DOMAIN aliases}

UnrecognizedKept(inp, out, blank, aliases) ==
  /\ Len(out) = Len(inp)
  /\ \A i \in 1..Len(inp) : \A f \in Unrecognized(blank, aliases) : out[i][f] = inp[i][f]

\* C3: normalizing a normalized bundle changes nothing:
\* upgradeMissionBundle(upgradeMissionBundle(b)) = upgradeMissionBundle(b),
\* collection by collection, entry by entry, field by field.
C3_NormalizeTwiceIsOnce ==
  normStage = "twice" => normTwice = normOnce

\* C3: a bundle with links under the legacy key mesh_links has been
\* normalized twice.
C3_LegacyLinksNormalizedTwice ==
  normStage = "twice" /\ bundleOf(normIn).mesh_links # None

\* C8: every canonical field of every normalized entity is the first
\* defined alias of the input entity, and undefined when no alias is defined.
C8_FirstDefinedAliasOrUndefined ==
  normStage = "once" =>
    LET inp == bundleOf(normIn)
        out == normOnce.body
    IN /\ AliasesResolved(ListOf(inp.environment), ListOf(out.environment), EnvAliases)
       /\ AliasesResolved(ListOf(inp.constraints), ListOf(out.constraints), ConstraintAliases)
       /\ AliasesResolved(ListOf(inp.nodes), ListOf(out.nodes), NodeAliases)
       /\ AliasesResolved(ListOf(inp.platforms), ListOf(out.platforms), PlatformAliases)
       /\ AliasesResolved(ListOf(inp.kits), ListOf(out.kits), KitAliases)

\* C8: a platform that defines no alias of mountedNodeIds has been normalized.
C8_PlatformWithoutMountedNodes ==
  /\ normStage = "once"
  /\ \E i \in 1..Len(ListOf(bundleOf(normIn).platforms)) :
       FirstDefinedAlias(ListOf(bundleOf(normIn).platforms)[i],
                         PlatformAliases.mountedNodeIds) = None

\* C9: every field no alias table lists, of the bundle, of each entity, and
\* beside a mission_project wrapper, is in the normalized output unchanged.
C9_UnrecognizedFieldsKept ==
  normStage = "once" =>
    LET inp == bundleOf(normIn)
        out == normOnce.body
    IN /\ normOnce.sibling = normIn.sibling
       /\ out.extra = inp.extra /\ out.origin_tool = inp.origin_tool
       /\ out.mission = inp.mission
       /\ UnrecognizedKept(ListOf(inp.environment), ListOf(out.environment),
                           BlankEnv, EnvAliases)
       /\ UnrecognizedKept(ListOf(inp.constraints), ListOf(out.constraints),
                           BlankConstraint, ConstraintAliases)
       /\ UnrecognizedKept(ListOf(inp.nodes), ListOf(out.nodes), BlankNode, NodeAliases)
       /\ UnrecognizedKept(ListOf(inp.platforms), ListOf(out.platforms),
                           BlankPlatform, PlatformAliases)
       /\ UnrecognizedKept(ListOf(inp.kits), ListOf(out.kits), BlankKit, KitAliases)

\* C9: a document with a field beside its mission_project wrapper has been
\* normalized.
C9_WrapperWithSibling ==
  normStage = "once" /\ normIn.kind = "object" /\ normIn.wrapped /\ normIn.sibling # None

----------------------------------------------------------------------------
(* Properties of the session *)

\* the required slots and their labels, in the order the labels are listed
RequiredSlotLabels ==
  <<<<"frame", "Frame">>, <<"motorEsc", "Propulsion">>, <<"battery", "Battery">>,
    <<"compute", "Compute">>, <<"rcReceiver", "Radio link">>>>

UnresolvedLabels(stack) ==
  MapSeq(LAMBDA e : e[2], FilterSeq(LAMBDA e : stack[e[1]] = None, RequiredSlotLabels))

\* C1: after evaluateAndRender, a stack with an unresolved required slot
\* means the evaluator did not run and lastResult is null; and
\* missingRequiredParts lists exactly the labels of the unresolved slots in
\* the order Frame, Propulsion, Battery, Compute, Radio link.
C1_MissingPartsGate ==
  lastStack # None =>
    LET missing == missingRequiredParts(lastStack)
    IN /\ missing = UnresolvedLabels(lastStack[1])
       /\ missing # <<>> => (lastResult = None /\ ~evaluatorRan)
       /\ (lastStack[1].battery = None
           /\ \A k \in {"frame", "motorEsc", "compute", "rcReceiver"} : lastStack[1][k] # None)
          => missing = <<"Battery">>

\* C1: after a control change, evaluateAndRender has assembled a stack that
\* lacks its battery and nothing else.
C1_StackLackingOnlyBattery ==
  /\ ops > 0
  /\ lastStack # None
  /\ UnresolvedLabels(lastStack[1]) = <<"Battery">>

\* the ids of the entries of a list
IdsOf(entries) == {entries[i].id : i \in 1..Len(entries)}

\* the entries of `a` and of `b` that share an id agree on the fields `fields`
SameFields(a, b, fields) ==
  \A i \in 1..Len(a) : \A j \in 1..Len(b) :
    a[i].id = b[j].id => \A f \in fields : a[i][f] = b[j][f]

PlatformCanonicalFields ==
  {"id", "name", "domain", "frameType", "mountedNodeIds", "payloadIds", "batteryWh",
   "auwKg", "missionRoles", "environmentRef", "constraintsRef"}
NodeCanonicalFields == {"id", "name", "role", "weightGrams", "powerDrawW", "rfBandGhz"}
LinkCanonicalFields == {"id", "from", "to", "rfBandGhz"}

\* the export, the export imported into a fresh session, and that session
\* exported again
FirstExport == buildMissionProjectPayload(Session)
Reimport == applyMissionProject(FreshSession(catalog), FirstExport)
SecondExport == buildMissionProjectPayload(Reimport.s)

\* C2: export, import into a fresh session, export again: the second bundle
\* has the same platform, node and mesh-link ids as the first and the same
\* value in every canonical field of every entity.
C2_RoundTripReproduces ==
  LET a == FirstExport.body
      b == SecondExport.body
  IN /\ ~Reimport.threw
     /\ IdsOf(b.platforms[1]) = IdsOf(a.platforms[1])
     /\ IdsOf(b.nodes[1]) = IdsOf(a.nodes[1])
     /\ IdsOf(b.meshLinks[1]) = IdsOf(a.meshLinks[1])
     /\ SameFields(a.platforms[1], b.platforms[1], PlatformCanonicalFields)
     /\ SameFields(a.nodes[1], b.nodes[1], NodeCanonicalFields)
     /\ SameFields(a.meshLinks[1], b.meshLinks[1], LinkCanonicalFields)

\* C2: a platform saved with a frame and a battery that are not the
\* catalog's first ones is in the session.
C2_SavedWithOtherFrame ==
  \E i \in 1..Len(savedPlatforms) :
    /\ savedPlatforms[i].selection.frame = Some("frame_7in")
    /\ savedPlatforms[i].selection.battery = Some("bat_4s_5000")

\* every entry of `raw` that carries an id is in `out` under that id, and is
\* there as the normalizer left it unless the session holds an entity with
\* its id
BaseKept(raw, out, Normal(_), sessionIds) ==
  \A i \in 1..Len(raw) :
    TruthyStr(raw[i].id) =>
      \E j \in 1..Len(out) :
        /\ out[j].id = raw[i].id
        /\ out[j] = Normal(raw[i]) \/ raw[i].id \in sessionIds

\* C4: once a bundle is imported, every platform, node, environment entry,
\* constraint entry, mesh link and kit it holds (each under the id the
\* bundle format gives it) is in the bundle buildMissionProjectPayload
\* produces, after any saves, node-design imports and control changes; an
\* entity differs from its imported form only where the session holds an
\* entity with the same id.
C4_MergeKeepsBaseEntities ==
  (importedMissionProject # None /\ importedRaw # None) =>
    LET raw == bundleOf(importedRaw[1])
        out == buildMissionProjectPayload(Session).body
        base == innerBaseOf(Session)
    IN /\ BaseKept(ListOf(raw.platforms), out.platforms[1], mapPlatform,
                   IdsOf(savedPlatforms))
       /\ BaseKept(ListOf(raw.nodes), out.nodes[1], mapNode, IdsOf(nodeLibrary))
       /\ BaseKept(ListOf(raw.environment), out.environment[1], mapEnv,
                   {Some(exportEnvId(Session, base))})
       /\ BaseKept(ListOf(raw.constraints), out.constraints[1], mapConstraint,
                   {Some(exportConstraintId(Session, base))})
       /\ BaseKept(ListOf(raw.meshLinks) \o ListOf(raw.mesh_links), out.meshLinks[1],
                   mapLink, {})
       /\ BaseKept(ListOf(raw.kits), out.kits[1], mapKit, {})

\* C4: a node of the imported bundle is no longer in the node library, a
\* node-design import having replaced the library after the bundle import.
C4_BaseNodeGoneFromLibrary ==
  /\ importedMissionProject # None /\ importedRaw # None
  /\ lastImport = NoImport
  /\ \E i \in 1..Len(ListOf(bundleOf(importedRaw[1]).nodes)) :
       LET n == ListOf(bundleOf(importedRaw[1]).nodes)[i]
       IN TruthyStr(n.id) /\ n.id \notin IdsOf(nodeLibrary)
  /\ \E i \in 1..Len(nodeLibrary) : nodeLibrary[i].id = Some("node-7")

\* a document that is no bundle: JSON null, a number, or an object with a
\* node whose role is not a list
StructurallyInvalid(file) ==
  \/ file.kind \in {"null", "number"}
  \/ /\ file.kind = "object"
     /\ \E i \in 1..Len(ListOf(file.body.nodes)) :
          LET n == ListOf(file.body.nodes)[i]
          IN \/ n.role # None /\ ~n.role[1].isArray
             \/ n.role_tags # None /\ ~n.role_tags[1].isArray

ImportGuardedVars ==
  {"importedMissionProject", "missionMeta", "meshLinks", "kits", "environment",
   "constraintPrefs", "nodeLibrary", "savedPlatforms", "persisted"}

\* C5: when handleMissionImport ends in its error branch, every session
\* variable and the persisted state are what they were before the import;
\* and a document that is JSON null, a number, or holds a node whose role
\* is not a list ends in the error branch.
C5_FailedImportChangesNothing ==
  lastImport.outcome # "none" =>
    /\ lastImport.outcome = "error" =>
         \A v \in ImportGuardedVars : Session[v] = lastImport.before[1][v]
    /\ (lastImport.file.kind = "unparseable" \/ StructurallyInvalid(lastImport.file))
         => lastImport.outcome = "error"

\* C5: an import of a document that is no bundle has just ended, in a
\* session that held a saved platform.
C5_InvalidDocumentImported ==
  /\ lastImport.outcome # "none"
  /\ StructurallyInvalid(lastImport.file)
  /\ lastImport.before[1].savedPlatforms # <<>>

\* wherever an entry of `overlay` meets the entry of `base` with its id,
\* the entry of `out` with that id keeps the base value of every field of
\* `fields` the overlay gives no value
OverlayKeepsBase(base, overlay, out, fields) ==
  \A i \in 1..Len(base) : \A j \in 1..Len(overlay) :
    (TruthyStr(base[i].id) /\ overlay[j].id = base[i].id) =>
      \E k \in 1..Len(out) :
        /\ out[k].id = base[i].id
        /\ \A f \in fields : overlay[j][f] = None => out[k][f] = base[i][f]

\* the overlays of buildMissionProjectPayload
PlatformOverlays(s) ==
  MapSeq(LAMBDA p : snapshotToPlatform(p, exportEnvId(s, innerBaseOf(s)),
                                       exportConstraintId(s, innerBaseOf(s)), getCatalog(s)),
         s.savedPlatforms)
ConstraintOverlay(s) ==
  [BlankConstraint EXCEPT
     !.id = Some(exportConstraintId(s, innerBaseOf(s))),
     !.minThrustToWeight = s.constraintPrefs.minTwr,
     !.minAdjustedEnduranceMin = s.constraintPrefs.minEndurance,
     !.maxAuwKg = s.constraintPrefs.maxAuw]

\* C6: where the export overlays a session platform, node or constraint
\* entry on the base entity with the same id, every base field the overlay
\* gives no value (a platform's notes, a constraint value the session
\* leaves unset) has its base value in the exported entity.  (location is
\* left out: the platform and node overlays always give it a value.)
C6_OverlayKeepsUnsuppliedFields ==
  importedMissionProject # None =>
    LET base == innerBaseOf(Session)
        out == buildMissionProjectPayload(Session).body
    IN /\ OverlayKeepsBase(base.platforms[1], PlatformOverlays(Session), out.platforms[1],
                           DOMAIN BlankPlatform \ {"location"})
       /\ OverlayKeepsBase(base.nodes[1], MapSeq(libraryNodeToEntry, nodeLibrary),
                           out.nodes[1], DOMAIN BlankNode \ {"location"})
       /\ OverlayKeepsBase(base.constraints[1], <<ConstraintOverlay(Session)>>,
                           out.constraints[1], DOMAIN BlankConstraint)

\* C6: a saved platform has the id of a platform of the imported bundle
\* that carries notes.
C6_BasePlatformWithNotesOverlaid ==
  /\ importedMissionProject # None
  /\ \E i \in 1..Len(innerBaseOf(Session).platforms[1]) :
       LET p == innerBaseOf(Session).platforms[1][i]
       IN TruthyStr(p.id) /\ TruthyStr(p.notes) /\ p.id \in IdsOf(savedPlatforms)

\* the platforms of the document just imported that carry their all-up
\* weight under the legacy name only
LegacyAuwPlatforms ==
  FilterSeq(LAMBDA p : TruthyStr(p.id) /\ p.auw_kg # None /\ p.auwKg = None,
            ListOf(bundleOf(lastImport.file).platforms))

\* C7: after importing a bundle whose platform carries its all-up weight
\* only as auw_kg = v, the export holds that platform, under the same id,
\* with auwKg = v.
C7_LegacyAuwExportedUnchanged ==
  lastImport.outcome = "ok" =>
    LET out == buildMissionProjectPayload(Session).body.platforms[1]
    IN \A i \in 1..Len(LegacyAuwPlatforms) :
         \E k \in 1..Len(out) :
           /\ out[k].id = LegacyAuwPlatforms[i].id
           /\ out[k].auwKg = LegacyAuwPlatforms[i].auw_kg

\* C7: a bundle with a platform weighing 4.9001 kg under auw_kg has just
\* been imported.
C7_FineLegacyAuwImported ==
  /\ lastImport.outcome = "ok"
  /\ \E i \in 1..Len(LegacyAuwPlatforms) : LegacyAuwPlatforms[i].auw_kg = Some(49001)

\* `out` is `base` with the entry under `id` placed: in place when base has
\* the id (same length, same order, the other entries untouched), else in
\* front
PlacedUnder(base, out, id) ==
  LET at == FindIndex(LAMBDA e : e.id = Some(id), base)
  IN IF at > 0
     THEN /\ Len(out) = Len(base)
          /\ \A i \in 1..Len(base) : out[i].id = base[i].id
          /\ \A i \in 1..Len(base) : i # at => out[i] = base[i]
     ELSE /\ Len(out) = Len(base) + 1
          /\ out[1].id = Some(id)
          /\ \A i \in 1..Len(base) : out[i + 1] = base[i]

\* the entry of `out` under `id`: the first with it
EntryUnder(out, id) == out[FindIndex(LAMBDA e : e.id = Some(id), out)]

\* C10: on export the session's environment entry and constraint entry go
\* under the id missionMeta records (environment_id, constraint_id) when it
\* records one; an entry with that id in the base list is overlaid in place,
\* the list keeping its length and order, otherwise the entry is put in
\* front; and the exported entry under that id holds the session's
\* altitude and temperature bands, respectively its constraint values.
C10_SingletonPlacement ==
  LET base == innerBaseOf(Session)
      out == buildMissionProjectPayload(Session).body
      envId == exportEnvId(Session, base)
      cstId == exportConstraintId(Session, base)
  IN /\ TruthyStr(missionMeta.environment_id) => envId = missionMeta.environment_id[1]
     /\ TruthyStr(missionMeta.constraint_id) => cstId = missionMeta.constraint_id[1]
     /\ PlacedUnder(base.environment[1], out.environment[1], envId)
     /\ PlacedUnder(base.constraints[1], out.constraints[1], cstId)
     /\ EntryUnder(out.environment[1], envId).altitudeBand = Some(environment.altitude)
     /\ EntryUnder(out.environment[1], envId).temperatureBand = Some(environment.temperature)
     /\ EntryUnder(out.constraints[1], cstId).minThrustToWeight = constraintPrefs.minTwr
     /\ EntryUnder(out.constraints[1], cstId).minAdjustedEnduranceMin
          = constraintPrefs.minEndurance
     /\ EntryUnder(out.constraints[1], cstId).maxAuwKg = constraintPrefs.maxAuw

\* C10: the session records env-2 as its environment id, the imported bundle
\* lists env-2 second, and the user has changed the altitude band since the
\* import.
C10_RecordedIdSecondInBase ==
  /\ missionMeta.environment_id = Some("env-2")
  /\ FindIndex(LAMBDA e : e.id = Some("env-2"), innerBaseOf(Session).environment[1]) = 2
  /\ lastImport = NoImport
  /\ environment.altitude = "high_desert"

----------------------------------------------------------------------------
(* Import and the local library *)

\* every entry of `before` whose id is not among `importedIds` has its id
\* among the entries of `after`
LocalKept(before, importedIds, after) ==
  \A i \in 1..Len(before) :
    before[i].id \notin importedIds => before[i].id \in IdsOf(after)

\* C11: after an import that succeeded, every node of the node library and
\* every saved platform that was there before the import, and whose id the
\* imported bundle does not use, is still in nodeLibrary / savedPlatforms,
\* and so is every imported node and platform that has an id.
C11_ImportKeepsLocalLibrary ==
  lastImport.outcome = "ok" =>
    LET before == lastImport.before[1]
        bundle == upgradeMissionBundle(lastImport.file).body
        nodes == MapSeq(missionNodeToLibrary, ListOf(bundle.nodes))
        platforms == ListOf(bundle.platforms)
    IN /\ LocalKept(before.nodeLibrary, IdsOf(nodes), nodeLibrary)
       /\ LocalKept(before.savedPlatforms, IdsOf(platforms), savedPlatforms)
       /\ \A i \in 1..Len(nodes) :
            TruthyStr(nodes[i].id) => nodes[i].id \in IdsOf(nodeLibrary)
       /\ \A i \in 1..Len(platforms) :
            TruthyStr(platforms[i].id) => platforms[i].id \in IdsOf(savedPlatforms)

\* C11: a bundle with platforms has just been imported into a session that
\* held a locally saved platform whose id the bundle does not use.
C11_LocalPlatformBeforeImport ==
  /\ lastImport.outcome = "ok"
  /\ ListOf(bundleOf(lastImport.file).platforms) # <<>>
  /\ \E i \in 1..Len(lastImport.before[1].savedPlatforms) :
       lastImport.before[1].savedPlatforms[i].id
         \notin IdsOf(ListOf(bundleOf(lastImport.file).platforms))

----------------------------------------------------------------------------
(* Export gating *)

\* C12: an export handler hands out a payload only when the current stack
\* has every required component and has been evaluated.
C12_ExportOnlyWhenEvaluated ==
  lastExport.emitted =>
    /\ missingRequiredParts(lastStack) = <<>>
    /\ lastResult # None

\* C12: the Export button was clicked while the stack lacks a required
\* component.
C12_ExportClickedOnIncompleteStack ==
  /\ lastExport.op = "exportPlatformJson"
  /\ missingRequiredParts(lastStack) # <<>>
  /\ lastResult = None

----------------------------------------------------------------------------
(* Persistence *)

----------------------------------------------------------------------------
(* Provenance tags of the export *)

\* every entry of the list has an id and an origin_tool
Tagged(entries) ==
  \A i \in 1..Len(entries) :
    TruthyStr(entries[i].id) /\ TruthyStr(entries[i].origin_tool)

\* every entry of `imported` that has an id and an origin_tool is in `out`
\* under its id with that origin_tool
TagsKept(imported, out) ==
  \A i \in 1..Len(imported) :
    (TruthyStr(imported[i].id) /\ TruthyStr(imported[i].origin_tool)) =>
      \E k \in 1..Len(out) :
        out[k].id = imported[i].id /\ out[k].origin_tool = imported[i].origin_tool

\* C14: every environment, constraint, node, platform, mesh-link and kit
\* entry of the exported bundle has an id and an origin_tool; and right
\* after an import every node and platform of the imported bundle has in
\* the export the origin_tool it had in the bundle.
C14_ExportedEntitiesTagged ==
  LET out == buildMissionProjectPayload(Session).body
  IN /\ Tagged(ListOf(out.environment)) /\ Tagged(ListOf(out.constraints))
     /\ Tagged(ListOf(out.nodes)) /\ Tagged(ListOf(out.platforms))
     /\ Tagged(ListOf(out.meshLinks)) /\ Tagged(ListOf(out.kits))
     /\ lastImport.outcome = "ok" =>
          /\ TagsKept(ListOf(bundleOf(lastImport.file).nodes), ListOf(out.nodes))
          /\ TagsKept(ListOf(bundleOf(lastImport.file).platforms), ListOf(out.platforms))

\* C14: a session that imported nothing has saved a platform, and its
\* export lists an environment entry.
C14_LocalSessionExported ==
  /\ importedMissionProject = None
  /\ savedPlatforms # <<>>
  /\ ListOf(buildMissionProjectPayload(Session).body.environment) # <<>>

----------------------------------------------------------------------------
(* Properties of the evaluator *)

RECURSIVE MassOfFirst(_, _)
\* the mass in grams of the first n entries of a list
MassOfFirst(items, n) ==
  IF n = 0 THEN 0 ELSE items[n].weight_grams + MassOfFirst(items, n - 1)

RECURSIVE SlotMassOfFirst(_, _)
\* the mass in grams of the resolved ones among the first n single slots
SlotMassOfFirst(stack, n) ==
  IF n = 0 THEN 0
  ELSE (IF stack[SingleSlots[n]] = None THEN 0 ELSE stack[SingleSlots[n]][1].weight_grams)
       + SlotMassOfFirst(stack, n - 1)

\* the mass in grams of everything a stack resolved
ResolvedMass(stack) ==
  SlotMassOfFirst(stack, Len(SingleSlots))
  + MassOfFirst(stack.payloads, Len(stack.payloads))
  + MassOfFirst(stack.nodePayloads, Len(stack.nodePayloads))

RatioFigures ==
  {"thrustToWeight", "adjustedThrustToWeight", "enduranceMinutes", "adjustedEnduranceMinutes"}

\* C15: for a stack with a resolved propulsion unit and battery the result's
\* totalWeight is the mass of every resolved slot, payload and node payload,
\* thrustToWeight is max_thrust_per_motor_g * motor_count / totalWeight when
\* that mass is positive and 0 when it is 0, and every quotient of the
\* result is a finite number (no division by a zero weight or power).
C15_ThrustToWeight ==
  (evalStage = "result" /\ evalStack[1].motorEsc # None /\ evalStack[1].battery # None) =>
     LET stack == evalStack[1]
         result == evalResult[1]
         mass == ResolvedMass(stack)
         thrust == stack.motorEsc[1].max_thrust_per_motor_g * stack.motorEsc[1].motor_count
     IN /\ result.totalWeight = mass * GramScale
        /\ mass > 0 =>
             result.thrustToWeight.num * mass = thrust * result.thrustToWeight.den
        /\ mass = 0 => result.thrustToWeight.num = 0
        /\ \A f \in RatioFigures : result[f].den > 0

\* an evaluated stack of a massless propulsion set and battery that has
\* thrust: the zero-denominator case
C15_MasslessStackEvaluated ==
  /\ evalStage = "result"
  /\ evalStack[1].motorEsc # None /\ evalStack[1].battery # None
  /\ ResolvedMass(evalStack[1]) = 0
  /\ evalStack[1].motorEsc[1].max_thrust_per_motor_g > 0
  /\ evalResult[1].thrustToWeight.num = 0

\* the ids of the band tables
KnownAltitudes == {"sea_level", "high_desert", "mountain"}
KnownTemperatures == {"hot", "standard", "cold", "freezing"}

\* C16: for every stack and every environment id, adjustedThrustToWeight is
\* at most thrustToWeight; an unknown altitude id is evaluated as sea_level
\* and an unknown temperature id as standard.
C16_AdjustedThrustNeverAbove ==
  evalStage = "result" =>
     LET result == evalResult[1]
     IN /\ RatLeq(result.adjustedThrustToWeight, result.thrustToWeight)
        /\ result.environment.altitude =
             IF evalIn.env.altitude \in KnownAltitudes THEN evalIn.env.altitude
             ELSE "sea_level"
        /\ result.environment.temperature =
             IF evalIn.env.temperature \in KnownTemperatures THEN evalIn.env.temperature
             ELSE "standard"
        /\ evalIn.env.altitude \notin KnownAltitudes =>
             result.adjustedThrustToWeight = result.thrustToWeight

\* a stack with thrust and mass evaluated under band ids the tables lack
C16_UnknownBandsEvaluated ==
  /\ evalStage = "result"
  /\ evalIn.env.altitude \notin KnownAltitudes
  /\ evalIn.env.temperature \notin KnownTemperatures
  /\ evalResult[1].thrustToWeight.num > 0
  /\ evalResult[1].environment = [altitude |-> "sea_level", temperature |-> "standard"]

\* the two environments of the comparison
MountainFreezing == [altitude |-> "mountain", temperature |-> "freezing"]
SeaLevelStandard == [altitude |-> "sea_level", temperature |-> "standard"]
CompleteStack(stack) == missingRequiredParts(Some(stack)) = <<>>

\* C17: the same complete stack evaluated under mountain/freezing has
\* adjusted endurance strictly below nominal endurance and adjusted
\* thrust-to-weight strictly below nominal thrust-to-weight; evaluated under
\* sea_level/standard its adjusted figures equal the nominal ones.
C17_DeratedStrictlyBelowNominal ==
  (evalStage = "result" /\ CompleteStack(evalStack[1])) =>
     LET high == evaluateStack(evalStack[1], MountainFreezing, evalIn.constraints)
         low == evaluateStack(evalStack[1], SeaLevelStandard, evalIn.constraints)
         result == evalResult[1]
     IN /\ RatLess(high.adjustedEnduranceMinutes, high.enduranceMinutes)
        /\ RatLess(high.adjustedThrustToWeight, high.thrustToWeight)
        /\ low.adjustedEnduranceMinutes = low.enduranceMinutes
        /\ low.adjustedThrustToWeight = low.thrustToWeight
        /\ high.enduranceMinutes = low.enduranceMinutes
        /\ high.thrustToWeight = low.thrustToWeight
        /\ evalIn.env = MountainFreezing => result = high
        /\ evalIn.env = SeaLevelStandard => result = low

\* a complete stack evaluated under mountain/freezing
C17_CompleteStackAtMountain ==
  /\ evalStage = "result"
  /\ CompleteStack(evalStack[1])
  /\ evalIn.env = MountainFreezing
  /\ RatLess(evalResult[1].adjustedEnduranceMinutes, evalResult[1].enduranceMinutes)
  /\ evalResult[1].enduranceMinutes.num > 0

\* the position of each message's check in the fixed order; the two
\* adjusted thrust-to-weight messages belong to one check
CheckOrder ==
  << {"Battery cell count outside frame recommendation"},
     {"Battery cells outside motor/ESC range"},
     {"All-up weight exceeds frame limit"},
     {"Thrust-to-weight under 1.3 limits climb margin"},
     {"Adjusted thrust-to-weight under 1.3 in current environment band",
      "Adjusted thrust margin is thin; consider more thrust or lighter payloads"},
     {"Motor/ESC set not tagged for this frame form factor"},
     {"VTX antenna band mismatch"},
     {"RC antenna band mismatch"},
     {"Aux radio antenna band mismatch"},
     {"All-up weight exceeds configured max"},
     {"Adjusted thrust-to-weight below minimum"},
     {"Adjusted endurance below minimum"} >>
CheckOf(text) == CHOOSE i \in 1..Len(CheckOrder) : text \in CheckOrder[i]
InCheckOrder(warnings) ==
  /\ \A i \in 1..Len(warnings) : \E k \in 1..Len(CheckOrder) : warnings[i].text \in CheckOrder[k]
  /\ \A i, j \in 1..Len(warnings) :
        i < j => CheckOf(warnings[i].text) < CheckOf(warnings[j].text)
Warned(warnings, text) == \E i \in 1..Len(warnings) : warnings[i].text = text
OverFrameLimit ==
  /\ evalStack[1].frame # None
  /\ evalResult[1].totalWeight > evalStack[1].frame[1].max_auw_grams * GramScale
OverConfiguredMax ==
  /\ TruthyNum(evalIn.constraints.maxAuw)
  /\ evalResult[1].totalWeight > evalIn.constraints.maxAuw[1]

EntryWithId(items, id) ==
  IF \E i \in 1..Len(items) : items[i].id = id
  THEN Some(items[CHOOSE i \in 1..Len(items) :
                    /\ items[i].id = id
                    /\ \A j \in 1..(i - 1) : items[j].id # id])
  ELSE None
\* the ids of `ids` that some entry of `items` carries, in the order of `ids`
RECURSIVE Resolvable(_, _)
Resolvable(ids, known) ==
  IF ids = <<>> THEN <<>>
  ELSE (IF Head(ids) \in known THEN <<Head(ids)>> ELSE <<>>) \o Resolvable(Tail(ids), known)

\* C19: buildStack always returns a stack: every single slot holds the
\* catalog entry with the selected id or null when none matches, payloads
\* holds the catalog payloads of the selected ids that resolve, in selection
\* order, and nodePayloads the node-library entries of the selected ids that
\* resolve in the node library; ids that do not resolve are left out.
C19_AssemblyResolvesOrOmits ==
  evalStage \in {"stack", "result"} =>
     LET stack == evalStack[1]
         cat == evalIn.cat
         sel == evalIn.sel
         payloadIds == {cat.payloads[i].id : i \in 1..Len(cat.payloads)}
         nodeIds == {EvalNodeLibrary[i].id[1] : i \in 1..Len(EvalNodeLibrary)}
     IN /\ evalStack # None
        /\ \A n \in 1..Len(SingleSlots) :
              stack[SingleSlots[n]] =
                 IF sel[SingleSlots[n]] = None THEN None
                 ELSE EntryWithId(cat[SlotCategory(SingleSlots[n])], sel[SingleSlots[n]][1])
        /\ [i \in 1..Len(stack.payloads) |-> stack.payloads[i].id]
              = Resolvable(sel.payloads, payloadIds)
        /\ \A i \in 1..Len(stack.payloads) :
              Some(stack.payloads[i]) = EntryWithId(cat.payloads, stack.payloads[i].id)
        /\ [i \in 1..Len(stack.nodePayloads) |-> stack.nodePayloads[i].id[1]]
              = Resolvable(sel.nodePayloads, nodeIds)
        /\ \A i \in 1..Len(stack.nodePayloads) :
              \E j \in 1..Len(EvalNodeLibrary) : stack.nodePayloads[i] = EvalNodeLibrary[j]

\* a stack assembled from a selection with an unknown frame id, a payload id
\* known only to the node library and a node id known only to the catalog
C19_UnknownIdsAssembled ==
  /\ evalStage = "stack"
  /\ evalIn.sel.frame = Some("frame_x") /\ evalStack[1].frame = None
  /\ evalIn.sel.payloads = <<"node-1">> /\ evalStack[1].payloads = <<>>
  /\ evalIn.sel.nodePayloads = <<"payload_eo", "node-7", "node-x">>
  /\ Len(evalStack[1].nodePayloads) = 1
  /\ evalStack[1].motorEsc # None

----------------------------------------------------------------------------
(* Properties of the node components *)

NodeCategories == {"payloads", "compute", "auxRadios"}
NodeSuffix(category) ==
  CASE category = "payloads" -> "-payload"
    [] category = "compute" -> "-compute"
    [] category = "auxRadios" -> "-radio"
\* the entries of the working catalog that follow the loaded catalog's own
Added(category) ==
  SubSeq(catalogWithNodes[category], Len(catalog[category]) + 1,
         Len(catalogWithNodes[category]))
\* the working catalog is the loaded catalog with, per category, one
\* component for every entry of the node library and nothing else
ComponentsFollowLibrary ==
  /\ \A k \in DOMAIN catalog \ NodeCategories : catalogWithNodes[k] = catalog[k]
  /\ \A k \in NodeCategories :
        /\ Len(catalogWithNodes[k]) = Len(catalog[k]) + Len(nodeLibrary)
        /\ SubSeq(catalogWithNodes[k], 1, Len(catalog[k])) = catalog[k]
        /\ \A i \in 1..Len(nodeLibrary) :
              /\ Added(k)[i].id = IdText(nodeLibrary[i].id) \o NodeSuffix(k)
              /\ Added(k)[i].weight_grams = nodeLibrary[i].weight_grams
              /\ Added(k)[i].role_tags = nodeLibrary[i].role_tags
\* the power draw a component of the category has for a node's power draw
ComponentPower(category, power) ==
  CASE category = "payloads" -> power
    [] category = "compute" -> IF power # 0 THEN power ELSE 5
    [] category = "auxRadios" -> 0

\* C20 as stated: the working catalog holds, for each node of the library
\* and for no other, exactly one payload, one compute and one aux-radio
\* component with the suffixed id, each carrying the node's mass, power draw
\* and role tags.
C20_ComponentsCarryNodePower ==
  /\ ComponentsFollowLibrary
  /\ \A k \in NodeCategories : \A i \in 1..Len(nodeLibrary) :
        /\ Added(k)[i].power_draw_typical_w = nodeLibrary[i].power_draw_typical_w
        /\ Cardinality({j \in 1..Len(catalogWithNodes[k]) :
                          catalogWithNodes[k][j].id = Added(k)[i].id}) = 1

\* C20 (amended): the working catalog holds, after the catalog's own entries,
\* one payload, one compute and one aux-radio component per entry of the node
\* library, in library order and with the suffixed id, each carrying the
\* node's mass and role tags; the payload component carries the node's power
\* draw, the compute component the node's power draw or 5 W when the node
\* has none, and the aux-radio component has no power draw.
C20_ComponentsFollowLibrary ==
  /\ ComponentsFollowLibrary
  /\ \A k \in NodeCategories : \A i \in 1..Len(nodeLibrary) :
        Added(k)[i].power_draw_typical_w
           = ComponentPower(k, nodeLibrary[i].power_draw_typical_w)

\* a page reloaded with a library that holds a node drawing no power
C20_ReloadedWithUnpoweredNode ==
  /\ lastReload # None
  /\ \E i \in 1..Len(nodeLibrary) :
        /\ nodeLibrary[i].power_draw_typical_w = 0
        /\ Added("compute")[i].power_draw_typical_w = 5
  /\ \E i \in 1..Len(nodeLibrary) : nodeLibrary[i].power_draw_typical_w > 0

----------------------------------------------------------------------------
(* Properties of the GeoJSON projection *)

Located(e) ==
  e.location # None /\ e.location[1].lat # None /\ e.location[1].lon # None
GeoEntities == ListOf(bundleOf(geoIn).nodes) \o ListOf(bundleOf(geoIn).platforms)
GeoLinks == ListOf(bundleOf(geoIn).meshLinks) \o ListOf(bundleOf(geoIn).mesh_links)
EndsLocated(link) ==
  /\ \E i \in 1..Len(GeoEntities) : GeoEntities[i].id = link.from /\ Located(GeoEntities[i])
  /\ \E i \in 1..Len(GeoEntities) : GeoEntities[i].id = link.to /\ Located(GeoEntities[i])
FeaturesOf(geometry, id) ==
  {i \in 1..Len(geoOut) : geoOut[i].geometry = geometry /\ geoOut[i].id = id}

\* C21: the projection of a bundle has one Point feature for each node and
\* platform with finite lat/lon and none for the others, and one LineString
\* feature for each mesh link, under meshLinks or under mesh_links, whose
\* from and to ids both resolve to located nodes or platforms.
C21_GeoJsonProjection ==
  geoStage = "projected" =>
     /\ \A i \in 1..Len(GeoEntities) :
           Cardinality(FeaturesOf("Point", GeoEntities[i].id))
              = IF Located(GeoEntities[i]) THEN 1 ELSE 0
     /\ \A i \in 1..Len(GeoLinks) :
           Cardinality(FeaturesOf("LineString", GeoLinks[i].id))
              = IF EndsLocated(GeoLinks[i]) THEN 1 ELSE 0
     /\ Len(geoOut)
           = Cardinality({i \in 1..Len(GeoEntities) : Located(GeoEntities[i])})
             + Cardinality({i \in 1..Len(GeoLinks) : EndsLocated(GeoLinks[i])})

\* a projected bundle that keeps a link between two located entities under
\* meshLinks
C21_LocatedLinkUnderMeshLinks ==
  /\ geoStage = "projected"
  /\ bundleOf(geoIn).mesh_links = None
  /\ \E i \in 1..Len(ListOf(bundleOf(geoIn).meshLinks)) :
        EndsLocated(bundleOf(geoIn).meshLinks[1][i])
  /\ Len(geoOut) = 2

\* the part of C21 the projection keeps: the Point features, and the
\* LineString features of the links under mesh_links
C21_PointsAndLegacyLinks ==
  geoStage = "projected" =>
     /\ \A i \in 1..Len(GeoEntities) :
           Cardinality(FeaturesOf("Point", GeoEntities[i].id))
              = IF Located(GeoEntities[i]) THEN 1 ELSE 0
     /\ \A i \in 1..Len(ListOf(bundleOf(geoIn).mesh_links)) :
           Cardinality(FeaturesOf("LineString", bundleOf(geoIn).mesh_links[1][i].id))
              = IF EndsLocated(bundleOf(geoIn).mesh_links[1][i]) THEN 1 ELSE 0

----------------------------------------------------------------------------
(* Properties of the power budget *)

\* the draw of the optional slots other than the receiver and the flight
\* controller, of the propulsion and of the payloads, in WattScale-ths of a
\* watt; an absent one adds nothing
DrawOf(stack) ==
  propulsionPower(stack)
  + (IF stack.compute # None THEN WattScale * stack.compute[1].power_draw_typical_w ELSE 0)
  + (IF stack.auxRadio # None /\ stack.auxRadio[1].duty_cycle_profile = "continuous"
     THEN 10 * WattScale ELSE 0)
  + (IF stack.auxRadio # None /\ stack.auxRadio[1].duty_cycle_profile # "continuous"
     THEN 6 * WattScale ELSE 0)
  + (IF stack.vtx # None THEN 13 * MaxSeq(stack.vtx[1].power_levels_mw) ELSE 0)
  + SumSeq([i \in 1..Len(stack.payloads) |->
              WattScale * stack.payloads[i].power_draw_typical_w])
  + SumSeq([i \in 1..Len(stack.nodePayloads) |->
              WattScale * stack.nodePayloads[i].power_draw_typical_w])

----------------------------------------------------------------------------
(* Properties of the exported bundle *)

\* the library node an exported node entry is written from: the last one
\* of the library with the entry's id
LibraryNodesOf(e) ==
  {j \in 1..Len(nodeLibrary) : TruthyStr(nodeLibrary[j].id) /\ nodeLibrary[j].id = e.id}
LibraryNodeOf(e) ==
  nodeLibrary[CHOOSE j \in LibraryNodesOf(e) : \A k \in LibraryNodesOf(e) : k <= j]

\* C23: every node entry of the exported bundle that comes from the node
\* library, a node that is only in the library included, has the library's
\* mass, power draw and RF band under weightGrams, powerDrawW and rfBandGhz.
C23_NodesExportedCanonically ==
  LET out == buildMissionProjectPayload(Session).body.nodes[1]
  IN \A i \in 1..Len(out) :
        LibraryNodesOf(out[i]) # {} =>
           /\ out[i].weightGrams = Some(LibraryNodeOf(out[i]).weight_grams)
           /\ out[i].powerDrawW = Some(LibraryNodeOf(out[i]).power_draw_typical_w)
           /\ out[i].rfBandGhz = OrNum(LibraryNodeOf(out[i]).rf_band_ghz, None)

\* an export with a node that is in the library and in no imported bundle:
\* its figures are under the legacy names only
C23_LocalNodeExported ==
  LET out == buildMissionProjectPayload(Session).body.nodes[1]
  IN /\ importedMissionProject = None
     /\ \E i \in 1..Len(out) :
           /\ LibraryNodesOf(out[i]) # {}
           /\ out[i].weight_grams = Some(LibraryNodeOf(out[i]).weight_grams)
           /\ out[i].power_draw_w = Some(LibraryNodeOf(out[i]).power_draw_typical_w)
           /\ out[i].weightGrams = None /\ out[i].powerDrawW = None

\* the part of C23 the export keeps: the library's figures are in every such
\* entry under weight_grams, power_draw_w and rf_band_ghz
C23_NodesExportedUnderLegacyNames ==
  LET out == buildMissionProjectPayload(Session).body.nodes[1]
  IN \A i \in 1..Len(out) :
        LibraryNodesOf(out[i]) # {} =>
           /\ out[i].weight_grams = Some(LibraryNodeOf(out[i]).weight_grams)
           /\ out[i].power_draw_w = Some(LibraryNodeOf(out[i]).power_draw_typical_w)
           /\ out[i].rf_band_ghz = OrNum(LibraryNodeOf(out[i]).rf_band_ghz, None)

----------------------------------------------------------------------------
(* Properties of the configured constraints *)

\* C24: every configured constraint is enforced: with a numeric maxAuw (0
\* included) and a total weight above maxAuw kg, with a numeric minTwr and
\* an adjusted thrust-to-weight below it, or with a numeric minEndurance and
\* an adjusted endurance below it, the warnings have the constraint's
\* message; a constraint that is null never produces one.
C24_ConfiguredConstraintsEnforced ==
  evalStage = "result" =>
     LET result == evalResult[1]
         limits == evalIn.constraints
     IN /\ (limits.maxAuw # None /\ result.totalWeight > limits.maxAuw[1])
             => Warned(result.warnings, "All-up weight exceeds configured max")
        /\ (limits.minTwr # None
              /\ RatLess(result.adjustedThrustToWeight, Ratio(limits.minTwr[1], TwrScale)))
             => Warned(result.warnings, "Adjusted thrust-to-weight below minimum")
        /\ (limits.minEndurance # None
              /\ RatLess(result.adjustedEnduranceMinutes, Ratio(limits.minEndurance[1], 1)))
             => Warned(result.warnings, "Adjusted endurance below minimum")
        /\ limits.maxAuw = None
             => ~Warned(result.warnings, "All-up weight exceeds configured max")
        /\ limits.minTwr = None
             => ~Warned(result.warnings, "Adjusted thrust-to-weight below minimum")
        /\ limits.minEndurance = None
             => ~Warned(result.warnings, "Adjusted endurance below minimum")

\* a stack with a positive mass evaluated under a maximum all-up weight of 0
C24_ZeroMaximumEvaluated ==
  /\ evalStage = "result"
  /\ evalIn.constraints.maxAuw = Some(0)
  /\ evalResult[1].totalWeight > 0
  /\ ~Warned(evalResult[1].warnings, "All-up weight exceeds configured max")

\* the part of C24 the evaluator keeps: the three checks with a threshold
\* other than 0, and the silence of a null constraint
C24_NonZeroConstraintsEnforced ==
  evalStage = "result" =>
     LET result == evalResult[1]
         limits == evalIn.constraints
     IN /\ (limits.maxAuw \notin {None, Some(0)} /\ result.totalWeight > limits.maxAuw[1])
             => Warned(result.warnings, "All-up weight exceeds configured max")
        /\ (limits.minTwr # None
              /\ RatLess(result.adjustedThrustToWeight, Ratio(limits.minTwr[1], TwrScale)))
             => Warned(result.warnings, "Adjusted thrust-to-weight below minimum")
        /\ (limits.minEndurance # None
              /\ RatLess(result.adjustedEnduranceMinutes, Ratio(limits.minEndurance[1], 1)))
             => Warned(result.warnings, "Adjusted endurance below minimum")
        /\ limits.maxAuw = None
             => ~Warned(result.warnings, "All-up weight exceeds configured max")
        /\ limits.minTwr = None
             => ~Warned(result.warnings, "Adjusted thrust-to-weight below minimum")
        /\ limits.minEndurance = None
             => ~Warned(result.warnings, "Adjusted endurance below minimum")

\* the collections of a bundle
Collections == {"platforms", "nodes", "meshLinks", "kits", "environment", "constraints"}
\* no id is carried by two entries of the list
UniqueIds(entries) ==
  \A i, j \in 1..Len(entries) :
     (i < j /\ entries[i].id # None) => entries[i].id # entries[j].id
\* the imported file, as it was read, had unique ids in every collection;
\* its mesh links are the ones under either key
ImportedUnique ==
  importedRaw # None =>
     /\ \A k \in Collections \ {"meshLinks"} : UniqueIds(ListOf(bundleOf(importedRaw[1])[k]))
     /\ UniqueIds(ListOf(bundleOf(importedRaw[1]).meshLinks)
                    \o ListOf(bundleOf(importedRaw[1]).mesh_links))

\* C25: when the imported bundle had unique ids per collection, every
\* collection of the exported bundle has at most one entry per id (a link
\* imported under mesh_links is exported once), and importing the export
\* into a fresh session and exporting again grows no collection.
C25_NoDuplicatedEntities ==
  ImportedUnique =>
     \A k \in Collections :
        /\ UniqueIds(ListOf(FirstExport.body[k]))
        /\ Len(ListOf(SecondExport.body[k])) <= Len(ListOf(FirstExport.body[k]))

\* an export after the import of a bundle with one link under mesh_links
C25_LegacyLinksExported ==
  /\ importedRaw # None /\ ImportedUnique
  /\ bundleOf(importedRaw[1]).meshLinks = None
  /\ Len(ListOf(bundleOf(importedRaw[1]).mesh_links)) = 1
  /\ Len(ListOf(FirstExport.body.meshLinks)) = 2
  /\ Len(ListOf(SecondExport.body.meshLinks)) = 4

\* the part of C25 the export keeps: the collections other than the links
C25_OtherCollectionsUnique ==
  ImportedUnique =>
     \A k \in Collections \ {"meshLinks"} :
        /\ UniqueIds(ListOf(FirstExport.body[k]))
        /\ Len(ListOf(SecondExport.body[k])) <= Len(ListOf(FirstExport.body[k]))

\* the canonical and legacy names of one field, per collection
Aliases ==
  [environment |-> { <<"altitudeBand", "altitude_band">>,
                     <<"temperatureBand", "temperature_band">> },
   constraints |-> { <<"minThrustToWeight", "min_thrust_to_weight">>,
                     <<"minAdjustedEnduranceMin", "min_adjusted_endurance_min">>,
                     <<"maxAuwKg", "max_auw_kg">> },
   nodes |-> { <<"weightGrams", "weight_grams">>, <<"powerDrawW", "power_draw_w">>,
               <<"powerDrawW", "power_w">>, <<"rfBandGhz", "rf_band_ghz">>,
               <<"role", "role_tags">> },
   platforms |-> { <<"frameType", "frame_type">>, <<"frameType", "frame">>,
                   <<"mountedNodeIds", "mounted_node_ids">>,
                   <<"payloadIds", "payload_ids">>, <<"powerBudgetW", "power_budget_w">>,
                   <<"batteryWh", "battery_wh">>, <<"auwKg", "auw_kg">>,
                   <<"missionRoles", "mission_roles">>,
                   <<"environmentRef", "environment_ref">>,
                   <<"constraintsRef", "constraints_ref">> },
   meshLinks |-> { <<"rfBandGhz", "rf_band_ghz">> },
   kits |-> { <<"supportedPlatformIds", "supported_platform_ids">> }]
\* no entity of the bundle has two names of one field with different values
AliasesAgree(body) ==
  \A k \in DOMAIN Aliases : \A i \in 1..Len(ListOf(body[k])) : \A pair \in Aliases[k] :
     (body[k][1][i][pair[1]] # None /\ body[k][1][i][pair[2]] # None)
        => body[k][1][i][pair[1]] = body[k][1][i][pair[2]]

\* C26: no entity of the exported bundle carries the canonical and a legacy
\* name of one field with different values, whatever was imported and
\* whatever the session changed afterwards.
C26_NoConflictingAliases == AliasesAgree(FirstExport.body)

\* an export after a bundle with legacy names only was imported and the user
\* changed the altitude band: the environment entry has both names
C26_BandChangedAfterLegacyImport ==
  /\ importedRaw # None /\ AliasesAgree(bundleOf(importedRaw[1]))
  /\ ListOf(bundleOf(importedRaw[1]).environment) # <<>>
  /\ bundleOf(importedRaw[1]).environment[1][1].altitudeBand = None
  /\ bundleOf(importedRaw[1]).environment[1][1].altitude_band # Some(environment.altitude)
  /\ FirstExport.body.environment[1][1].altitudeBand = Some(environment.altitude)
  /\ FirstExport.body.environment[1][1].altitude_band
        = bundleOf(importedRaw[1]).environment[1][1].altitude_band

\* every entry of `entries` is an entry of the exported list
AllExported(entries, exported) ==
  \A i \in 1..Len(entries) : \E j \in 1..Len(exported) : exported[j] = entries[i]
\* the environment and constraint ids the platforms of an export refer to
ExportedRefs(out) ==
  {<<out.platforms[1][i].id, out.platforms[1][i].environmentRef,
     out.platforms[1][i].constraintsRef>> : i \in 1..Len(ListOf(out.platforms))}

\* C27: in every session state, a session restored by a reload included,
\* every mesh link and kit of the session is in the exported bundle, and the
\* environment / constraint ids the exported platforms refer to are the same
\* before and after a reload.
C27_SessionLinksAndKitsExported ==
  /\ AllExported(meshLinks, ListOf(FirstExport.body.meshLinks))
  /\ AllExported(kits, ListOf(FirstExport.body.kits))
  /\ (lastReload # None /\ lastReload[1].completed /\ completed
        /\ savedPlatforms = lastReload[1].session.savedPlatforms)
       => ExportedRefs(FirstExport.body)
             = ExportedRefs(buildMissionProjectPayload(lastReload[1].session).body)

\* a session restored by a reload that has a mesh link, a kit and a saved
\* platform, exported with no link and no kit
C27_ReloadedSessionExported ==
  /\ lastReload # None /\ lastReload[1].completed /\ completed
  /\ importedMissionProject = None
  /\ meshLinks # <<>> /\ kits # <<>> /\ savedPlatforms # <<>>
  /\ savedPlatforms = lastReload[1].session.savedPlatforms
  /\ ListOf(FirstExport.body.meshLinks) = <<>>
  /\ ListOf(FirstExport.body.kits) = <<>>
  /\ \E now \in ExportedRefs(FirstExport.body) :
     \E before \in ExportedRefs(buildMissionProjectPayload(lastReload[1].session).body) :
        now[1] = before[1] /\ now[2] # before[2] /\ now[3] # before[3]

\* the part of C27 the export keeps: while the imported bundle is held, the
\* session's links and kits are exported
C27_ExportedWhileBundleHeld ==
  importedMissionProject # None =>
     /\ AllExported(meshLinks, ListOf(FirstExport.body.meshLinks))
     /\ AllExported(kits, ListOf(FirstExport.body.kits))

----------------------------------------------------------------------------
(* Properties of the import reads *)

\* the entry of `entries` with the id of `e`
SameId(entries, e) == {i \in 1..Len(entries) : entries[i].id = e.id}

\* the session and the export hold the figures of the normalized platform p
PlatformReadAsNormalized(p) ==
  /\ \A i \in SameId(savedPlatforms, p) :
        /\ p.auwKg # None => savedPlatforms[i].metrics.totalWeight = p.auwKg[1]
        /\ p.frameType # None => savedPlatforms[i].frameType = p.frameType
  /\ \A i \in SameId(ListOf(FirstExport.body.platforms), p) :
        /\ p.auwKg # None => FirstExport.body.platforms[1][i].auwKg = Some(Round3(p.auwKg[1]))
        /\ p.frameType # None => FirstExport.body.platforms[1][i].frameType = p.frameType
\* the node library and the export hold the figures of the normalized node n
NodeReadAsNormalized(n) ==
  /\ \A i \in SameId(nodeLibrary, n) :
        /\ n.weightGrams # None => nodeLibrary[i].weight_grams = n.weightGrams[1]
        /\ n.powerDrawW # None => nodeLibrary[i].power_draw_typical_w = n.powerDrawW[1]
  /\ \A i \in SameId(ListOf(FirstExport.body.nodes), n) :
        /\ n.weightGrams # None => FirstExport.body.nodes[1][i].weight_grams = n.weightGrams
        /\ n.powerDrawW # None => FirstExport.body.nodes[1][i].power_draw_w = n.powerDrawW

\* C28: after an import, the mass, frame type, weight and power draw the
\* session snapshot and the node library hold, and the export re-emits, are
\* the values the normalizer selected for auwKg, frameType, weightGrams and
\* powerDrawW, also when the imported entity carries a legacy name of the
\* field with another value.
C28_ImportReadsAgreeWithNormalizer ==
  lastImport.outcome = "ok" =>
     /\ \A i \in 1..Len(upgradeMissionBundle(lastImport.file).body.platforms[1]) :
           upgradeMissionBundle(lastImport.file).body.platforms[1][i].id # None
              => PlatformReadAsNormalized(upgradeMissionBundle(lastImport.file).body.platforms[1][i])
     /\ \A i \in 1..Len(upgradeMissionBundle(lastImport.file).body.nodes[1]) :
           upgradeMissionBundle(lastImport.file).body.nodes[1][i].id # None
              => NodeReadAsNormalized(upgradeMissionBundle(lastImport.file).body.nodes[1][i])

\* a completed import of a platform with auwKg 4.9 and auw_kg 5.2 and of a
\* node with three power figures: the session holds the legacy ones
C28_MixedAliasesImported ==
  /\ lastImport.outcome = "ok"
  /\ \E i \in 1..Len(savedPlatforms) :
        /\ savedPlatforms[i].id = PlatMixed.id
        /\ savedPlatforms[i].metrics.totalWeight = PlatMixed.auw_kg[1]
        /\ savedPlatforms[i].frameType = PlatMixed.frame_type
  /\ \E i \in 1..Len(nodeLibrary) :
        /\ nodeLibrary[i].id = NodeMixed.id
        /\ nodeLibrary[i].weight_grams = NodeMixed.weight_grams[1]
        /\ nodeLibrary[i].power_draw_typical_w = NodeMixed.power_w[1]
  /\ \E i \in 1..Len(upgradeMissionBundle(lastImport.file).body.platforms[1]) :
        /\ upgradeMissionBundle(lastImport.file).body.platforms[1][i].id = PlatMixed.id
        /\ upgradeMissionBundle(lastImport.file).body.platforms[1][i].auwKg = PlatMixed.auwKg

----------------------------------------------------------------------------
(* Properties of the export read back *)

ConstraintFields == {"minTwr", "minEndurance", "maxAuw"}

\* C29: a constraint preference that is null in the exporting session, also
\* one cleared after the import of a bundle that defined it under the
\* canonical or the legacy name, is null in the fresh session that imports
\* the export; the fresh session's environment bands and constraint
\* preferences are those of the exporting session.
C29_ClearedConstraintsStayCleared ==
  /\ \A f \in ConstraintFields :
        constraintPrefs[f] = None => Reimport.s.constraintPrefs[f] = None
  /\ Reimport.s.environment = environment
  /\ Reimport.s.constraintPrefs = constraintPrefs

\* the maximum all-up weight was cleared after the import of a bundle that
\* has it under max_auw_kg only, and the export read back has it again
C29_LegacyMaximumCleared ==
  /\ importedRaw # None
  /\ ListOf(bundleOf(importedRaw[1]).constraints) # <<>>
  /\ bundleOf(importedRaw[1]).constraints[1][1].maxAuwKg = None
  /\ bundleOf(importedRaw[1]).constraints[1][1].max_auw_kg # None
  /\ constraintPrefs.maxAuw = None
  /\ FirstExport.body.constraints[1][1].maxAuwKg = None
  /\ Reimport.s.constraintPrefs.maxAuw = bundleOf(importedRaw[1]).constraints[1][1].max_auw_kg

\* the part of C29 the round trip keeps: when the mission names no
\* environment or constraint entry and the held bundle's constraints have no
\* legacy names, the bands and preferences come back
C29_CanonicalFirstEntryComesBack ==
  (/\ missionMeta.environment_id = None /\ missionMeta.constraint_id = None
   /\ \A i \in 1..Len(ListOf(innerBaseOf(Session).constraints)) :
         \A pair \in Aliases.constraints :
            innerBaseOf(Session).constraints[1][i][pair[2]] = None)
    => /\ Reimport.s.environment = environment
       /\ Reimport.s.constraintPrefs = constraintPrefs

----------------------------------------------------------------------------
(* Properties of the references of an export *)

\* some entry of the list has the id `ref`
HasEntry(entries, ref) == ref # None /\ \E i \in 1..Len(entries) : entries[i].id = ref
\* every platform of the bundle refers to an environment and a constraint
\* entry of the bundle
RefsResolve(body) ==
  \A i \in 1..Len(ListOf(body.platforms)) :
     /\ HasEntry(ListOf(body.environment), body.platforms[1][i].environmentRef)
     /\ HasEntry(ListOf(body.constraints), body.platforms[1][i].constraintsRef)

\* C30: every platform of the exported bundle has an environmentRef and a
\* constraintsRef that are ids of entries of the bundle's environment and
\* constraints lists, and the platforms-only export gives every saved
\* platform the references the MissionProject export gives it.
C30_ExportReferencesConsistent ==
  /\ RefsResolve(FirstExport.body)
  /\ \A i \in 1..Len(exportPlatformsOnly(Session)) :
        \A j \in SameId(ListOf(FirstExport.body.platforms), exportPlatformsOnly(Session)[i]) :
           /\ exportPlatformsOnly(Session)[i].environmentRef
                 = FirstExport.body.platforms[1][j].environmentRef
           /\ exportPlatformsOnly(Session)[i].constraintsRef
                 = FirstExport.body.platforms[1][j].constraintsRef

\* a session that holds an imported bundle whose mission names no
\* environment or constraint entry: the two exports of its first saved
\* platform refer to different entries
C30_ExportsAfterImport ==
  /\ importedMissionProject # None
  /\ missionMeta.environment_id = None /\ missionMeta.constraint_id = None
  /\ savedPlatforms # <<>>
  /\ exportPlatformsOnly(Session)[1].environmentRef = Some("env-local")
  /\ exportPlatformsOnly(Session)[1].constraintsRef = Some("cst-local")
  /\ \E j \in SameId(ListOf(FirstExport.body.platforms), exportPlatformsOnly(Session)[1]) :
        /\ FirstExport.body.platforms[1][j].environmentRef = Some("env-1")
        /\ FirstExport.body.platforms[1][j].constraintsRef = Some("cst-1")

\* the part of C30 the exports keep: the references of the MissionProject
\* export are ids of its own entries
C30_ReferencesResolve == RefsResolve(FirstExport.body)

====
